---- MODULE Spec2Model ----
(***************************************************************************)
(* TDKSozluk (src/index.js): the dictionary client that fans one lookup    *)
(* out to eight sub-dictionary endpoints, merges the settled outcomes      *)
(* into one record and memoizes results in a NodeCache instance.           *)
(*                                                                         *)
(* Text is a sequence of characters.  A character is a short ASCII string; *)
(* the Turkish letters are written with a stand-in: "i0" is the dotless    *)
(* small i, "I1" the dotted capital I, "s," "S," the s with cedilla, and   *)
(* so on.  A JavaScript value that may be null is a tagged record:         *)
(* Null, Arr(list) or Obj(record).                                         *)
(***************************************************************************)
EXTENDS Integers, Sequences, FiniteSets, TLC

\* ------------------------------------------------------------------ bounds

\* Operations started in one behaviour of Spec or SpecOps.
MaxOps == 2

\* The clock stops at MaxTime; it advances TimeStep seconds at a time.
MaxTime == 3600

TimeStep == 1800

\* The cacheTTL a caller passes to ara to override the default, in seconds.
ShortTTL == 900

\* The longest text given to kelimeTemizle, in characters.
MaxLen == 3

\* The longest list of markers a sense carries.
MaxMarkers == 2

\* ------------------------------------------------------- program constants

DefaultRetryCount == 3

AraTTL == 1800

GununTTL == 86400

AtasozuTTL == 3600

HarfTTL == 1800

PopulerTTL == 3600

\* ---------------------------------------------------------------- JS values

Null == [t |-> "null"]

Arr(s) == [t |-> "array", v |-> s]

Obj(r) == [t |-> "object", v |-> r]

\* JavaScript truthiness of a value of these three shapes.
Truthy(x) == x.t # "null"

\* a || b
OrElse(a, b) == IF Truthy(a) THEN a ELSE b

\* -------------------------------------------------------------------- text

Space == " "

Tab == "\\t"

\* The ligature U+FB01, one character that normalize('NFKC') turns into f, i.
Ligature == "fi*"

AsciiLower == {"a", "b", "c", "d", "e", "f", "g", "h", "i", "j", "k", "l", "m",
               "n", "o", "p", "q", "r", "s", "t", "u", "v", "w", "x", "y", "z"}

AsciiUpper == {"A", "B", "C", "D", "E", "F", "G", "H", "I", "J", "K", "L", "M",
               "N", "O", "P", "Q", "R", "S", "T", "U", "V", "W", "X", "Y", "Z"}

Digits == {"0", "1", "2", "3", "4", "5", "6", "7", "8", "9"}

\* The letters the character class of kelimeTemizle names after \w and \s.
TurkishLetters == {"c,", "g^", "i0", "o:", "s,", "u:", "C,", "G^", "I1", "O:", "S,", "U:"}

\* The lower case of a letter other than the dotted and dotless I.
LowerOther(c) ==
    CASE c = "C," -> "c,"
      [] c = "G^" -> "g^"
      [] c = "O:" -> "o:"
      [] c = "S," -> "s,"
      [] c = "U:" -> "u:"
      [] c = "A" -> "a" [] c = "B" -> "b" [] c = "C" -> "c" [] c = "D" -> "d"
      [] c = "E" -> "e" [] c = "F" -> "f" [] c = "G" -> "g" [] c = "H" -> "h"
      [] c = "J" -> "j" [] c = "K" -> "k" [] c = "L" -> "l" [] c = "M" -> "m"
      [] c = "N" -> "n" [] c = "O" -> "o" [] c = "P" -> "p" [] c = "Q" -> "q"
      [] c = "R" -> "r" [] c = "S" -> "s" [] c = "T" -> "t" [] c = "U" -> "u"
      [] c = "V" -> "v" [] c = "W" -> "w" [] c = "X" -> "x" [] c = "Y" -> "y"
      [] c = "Z" -> "z"
      [] OTHER -> c

\* toLowerCase without the locale: I becomes i, and the dot of the dotted I a
\* combining mark that the character filter then drops.
LowerRoot(c) ==
    CASE c = "I" -> "i"
      [] c = "I1" -> "i"
      [] OTHER -> LowerOther(c)

\* String.prototype.toLocaleLowerCase('tr-TR'), one character at a time.
LowerTR(c) ==
    CASE c = "I" -> "i0"
      [] c = "I1" -> "i"
      [] OTHER -> LowerOther(c)

\* toLocaleLowerCase('tr-TR'), character by character.
toLocaleLowerCase(s) == [i \in 1..Len(s) |-> LowerTR(s[i])]

\* \s, and what trim() strips
IsSpace(c) == c \in {Space, Tab}

\* normalize('NFKC'): the compatibility characters are replaced, the letters
\* of the alphabet, precomposed, stay.
RECURSIVE NFKC(_)
NFKC(s) ==
    IF s = <<>> THEN <<>>
    ELSE (IF Head(s) = Ligature THEN <<"f", "i">> ELSE <<Head(s)>>) \o NFKC(Tail(s))

RECURSIVE TrimStart(_)
TrimStart(s) == IF s # <<>> /\ IsSpace(Head(s)) THEN TrimStart(Tail(s)) ELSE s

RECURSIVE TrimEnd(_)
TrimEnd(s) ==
    IF s # <<>> /\ IsSpace(s[Len(s)]) THEN TrimEnd(SubSeq(s, 1, Len(s) - 1)) ELSE s

\* String.prototype.trim
Trim(s) == TrimEnd(TrimStart(s))

\* [\w\s<Turkish letters>\-]: the characters the first replace keeps.
Kept(c) ==
    \/ c \in AsciiLower \cup AsciiUpper \cup Digits \cup {"_"}
    \/ IsSpace(c)
    \/ c \in TurkishLetters
    \/ c = "-"

\* .replace(/[^\w\s...\-]/g, '')
RemoveOthers(s) == SelectSeq(s, Kept)

\* .replace(/\s+/g, ' ')
RECURSIVE CollapseSpaces(_)
CollapseSpaces(s) ==
    IF s = <<>> THEN <<>>
    ELSE IF IsSpace(Head(s))
         THEN <<Space>> \o CollapseSpaces(TrimStart(s))
         ELSE <<Head(s)>> \o CollapseSpaces(Tail(s))

\* kelimeTemizle on a string argument; '' for the empty string.
kelimeTemizle(word) ==
    IF word = <<>> THEN <<>>
    ELSE CollapseSpaces(RemoveOthers(NFKC(Trim(toLocaleLowerCase(word)))))

\* encodeURIComponent: unreserved characters stay, every other character
\* becomes the percent-escapes of its UTF-8 bytes.
EncodeChar(c) ==
    CASE c \in AsciiLower \cup AsciiUpper \cup Digits \cup {"_", "-"} -> <<c>>
      [] c = Space -> <<"%", "2", "0">>
      [] c = "i0" -> <<"%", "C", "4", "%", "B", "1">>
      [] c = "s," -> <<"%", "C", "5", "%", "9", "F">>
      [] c = "c," -> <<"%", "C", "3", "%", "A", "7">>
      [] c = "g^" -> <<"%", "C", "4", "%", "9", "F">>
      [] c = "o:" -> <<"%", "C", "3", "%", "B", "6">>
      [] c = "u:" -> <<"%", "C", "3", "%", "B", "C">>
      [] OTHER -> <<"%", c>>

RECURSIVE encodeURIComponent(_)
encodeURIComponent(s) ==
    IF s = <<>> THEN <<>> ELSE EncodeChar(Head(s)) \o encodeURIComponent(Tail(s))

\* ------------------------------------------------------------------ remote

Str(s) == [t |-> "string", v |-> s]

\* this.endpoints
Endpoints == {"gts", "atasozu", "deyim", "derleme", "terim", "bati", "kilavuz",
              "etms", "yazim", "ses", "gunun-sozu"}

\* The keys of the requests array of tumVerileriGetir, in issue order.
Legs == <<"temel", "atasozleri", "deyimler", "derleme", "terim", "bati", "kilavuz",
          "etimoloji">>

LegKeys == {Legs[i] : i \in 1..Len(Legs)}

\* The endpoint each request of tumVerileriGetir is sent to.
EndpointOf(key) ==
    CASE key = "temel" -> "gts"
      [] key = "atasozleri" -> "atasozu"
      [] key = "deyimler" -> "deyim"
      [] key = "derleme" -> "derleme"
      [] key = "terim" -> "terim"
      [] key = "bati" -> "bati"
      [] key = "kilavuz" -> "kilavuz"
      [] key = "etimoloji" -> "etms"

\* The words the remote service has entries for, as they arrive in a URL.
EncEv == <<"e", "v">>

EncSu == <<"s", "u">>

\* One sense of a gts entry.
Sense(anlam, ornekler, ozellikler) ==
    [anlam |-> anlam, orneklerListe |-> ornekler, ozelliklerListe |-> ozellikler,
     fiiller |-> Null, atasozleri |-> Null]

\* The body the service answers with when the request succeeds: a payload per
\* endpoint and term.  "ev" has entries everywhere; "su" has no proverb (an
\* empty list), an empty body from the idiom source and a bare gts entry; any
\* other term has no gts entry and empty lists elsewhere.
RemoteBody(ep, enc) ==
    CASE ep = "gts" /\ enc = EncEv ->
           Arr(<<[madde |-> "ev", lisan |-> "", ozel_mi |-> "0", cogul_mu |-> "0",
                  birlesikler |-> Str(<<"e", "v", " ", "i", ",", " ", "a", ",", ",">>),
                  anlamlarListe |->
                     Arr(<<Sense("barinak", Arr(<<"ornek1", "ornek2">>),
                                 Arr(<<[tam_adi |-> "sifat"], [tam_adi |-> "isim"]>>)),
                           Sense("aile", Null, Arr(<<[tam_adi |-> ""]>>)),
                           Sense("oturmak", Arr(<<"ornek3">>),
                                 Arr(<<[tam_adi |-> "gecissiz fiil"]>>)),
                           Sense("yuva", Null, Arr(<<[tam_adi |-> "ozel isim"]>>))>>)]>>)
      [] ep = "gts" /\ enc = EncSu ->
           Arr(<<[madde |-> "su", lisan |-> "", ozel_mi |-> "0", cogul_mu |-> "0",
                  birlesikler |-> Null, anlamlarListe |-> Null]>>)
      [] ep = "gts" -> Arr(<<>>)
      [] ep = "atasozu" /\ enc = EncSu -> Arr(<<>>)
      [] ep = "deyim" /\ enc = EncSu -> Null
      [] ep = "ses" ->
           Obj([sesDosyasi |-> IF enc = EncEv THEN Str("ev.wav") ELSE Null,
                telaffuz |-> IF enc = EncEv THEN Str("ev") ELSE Null])
      [] ep = "gunun-sozu" ->
           Obj([madde |-> Null, kelime |-> Str("soz"), anlam |-> Str("anlam")])
      [] OTHER -> IF enc \in {EncEv, EncSu}
                  THEN Arr(<<[kaynak |-> ep, madde |-> enc, lisan |-> Null, ozel_mi |-> Null,
                              cogul_mu |-> Null, birlesikler |-> Null,
                              anlamlarListe |-> Null]>>)
                  ELSE Arr(<<>>)

Pending == [status |-> "pending"]

Rejected == [status |-> "rejected"]

Fulfilled(data) == [status |-> "fulfilled", data |-> data]

\* What the attempt-th invocation of client.get for (ep, enc) settles to when
\* the service is in condition r: the endpoints in r.down fail (timeout,
\* transport error or error status); when r.transient, only on a first attempt.
Response(r, ep, enc, attempt) ==
    IF ep \in r.down /\ (~r.transient \/ attempt = 1)
    THEN Rejected
    ELSE Fulfilled(RemoteBody(ep, enc))

\* ------------------------------------------------------------- merge engine

Categories == <<"isim", "sifat", "zarf", "fiil", "edat", "baglac", "unlem">>

\* tam_adi.includes(cat) for the marker names the service uses.
MarkerIncludes(tamAdi, cat) ==
    CASE tamAdi = "isim" -> cat = "isim"
      [] tamAdi = "ozel isim" -> cat = "isim"
      [] tamAdi = "sifat" -> cat = "sifat"
      [] tamAdi = "zarf" -> cat = "zarf"
      [] tamAdi = "fiil" -> cat = "fiil"
      [] tamAdi = "gecissiz fiil" -> cat = "fiil"
      [] tamAdi = "edat" -> cat = "edat"
      [] tamAdi = "baglac" -> cat = "baglac"
      [] tamAdi = "unlem" -> cat = "unlem"
      [] OTHER -> FALSE

HasCategory(ozellikler, cat) ==
    \E i \in 1..Len(ozellikler) :
        ozellikler[i].tam_adi # "" /\ MarkerIncludes(ozellikler[i].tam_adi, cat)

RECURSIVE FirstCategory(_, _)
FirstCategory(ozellikler, i) ==
    IF i > Len(Categories) THEN Null
    ELSE IF HasCategory(ozellikler, Categories[i]) THEN Str(Categories[i])
    ELSE FirstCategory(ozellikler, i + 1)

\* The category of the first marker that names one, whatever its rank.
RECURSIVE FirstMarked(_, _)
FirstMarked(ozellikler, i) ==
    IF i > Len(ozellikler) THEN Null
    ELSE IF \E j \in 1..Len(Categories) : HasCategory(<<ozellikler[i]>>, Categories[j])
    THEN FirstCategory(<<ozellikler[i]>>, 1)
    ELSE FirstMarked(ozellikler, i + 1)

KullanimOfFirstMarker(anlam) ==
    FirstMarked(OrElse(anlam.ozelliklerListe, Arr(<<>>)).v, 1)

_kullanimTuruBelirle(anlam) ==
    FirstCategory(OrElse(anlam.ozelliklerListe, Arr(<<>>)).v, 1)

\* flat(): the concatenation of a list of lists.
RECURSIVE Flat(_)
Flat(ss) == IF ss = <<>> THEN <<>> ELSE Head(ss) \o Flat(Tail(ss))

\* [...new Set(s)]: first occurrences, in order.
RECURSIVE Unique(_)
Unique(s) ==
    IF s = <<>> THEN <<>>
    ELSE LET rest == Unique(SubSeq(s, 1, Len(s) - 1))
             last == s[Len(s)]
         IN  IF \E i \in 1..Len(rest) : rest[i] = last THEN rest ELSE Append(rest, last)

\* s.split(',')
RECURSIVE SplitComma(_, _)
SplitComma(s, cur) ==
    IF s = <<>> THEN <<cur>>
    ELSE IF Head(s) = "," THEN <<cur>> \o SplitComma(Tail(s), <<>>)
    ELSE SplitComma(Tail(s), Append(cur, Head(s)))

NonEmpty(s) == s # <<>>

\* One element of processedData.anlamlar.
AnlamOf(anlamlarListe, i) ==
    [sira |-> i,
     anlam |-> anlamlarListe[i].anlam,
     ornekler |-> OrElse(anlamlarListe[i].orneklerListe, Arr(<<>>)),
     kullanim |-> _kullanimTuruBelirle(anlamlarListe[i]),
     fiiller |-> OrElse(anlamlarListe[i].fiiller, Arr(<<>>)),
     atasozleri |-> OrElse(anlamlarListe[i].atasozleri, Arr(<<>>))]

OrneklerOf(a) == a.ornekler.v

_temelBilgilerIsle(data, processedData) ==
    IF ~Truthy(data) \/ Len(data.v) = 0 THEN processedData
    ELSE
      LET anaVeri == data.v[1]
          withTemel ==
            [processedData EXCEPT !.temelBilgiler =
                Obj([madde |-> anaVeri.madde, lisan |-> anaVeri.lisan,
                     ozel_mi |-> anaVeri.ozel_mi, cogul_mu |-> anaVeri.cogul_mu,
                     birlesikler |-> anaVeri.birlesikler])]
          anlamlar ==
            [i \in 1..Len(anaVeri.anlamlarListe.v) |-> AnlamOf(anaVeri.anlamlarListe.v, i)]
          withAnlamlar ==
            IF Truthy(anaVeri.anlamlarListe)
            THEN [withTemel EXCEPT
                    !.anlamlar = Arr(anlamlar),
                    !.ornekler = Arr(Flat([i \in 1..Len(anlamlar) |-> OrneklerOf(anlamlar[i])])),
                    !.kullanimTuru =
                        Arr(Unique(SelectSeq([i \in 1..Len(anlamlar) |-> anlamlar[i].kullanim], Truthy)))]
            ELSE withTemel
      IN  IF Truthy(anaVeri.birlesikler)
          THEN [withAnlamlar EXCEPT !.birlesikler =
                  LET parts == SplitComma(anaVeri.birlesikler.v, <<>>)
                  IN  Arr(SelectSeq([i \in 1..Len(parts) |-> Trim(parts[i])], NonEmpty))]
          ELSE withAnlamlar

\* processedData as tumVerileriGetir first builds it.
EmptyData(kelime) ==
    [kelime |-> kelime, temelBilgiler |-> Null, anlamlar |-> Arr(<<>>),
     ornekler |-> Arr(<<>>), atasozleri |-> Arr(<<>>), deyimler |-> Arr(<<>>),
     birlesikler |-> Arr(<<>>), etimoloji |-> Null, telaffuz |-> Null,
     kullanimTuru |-> Arr(<<>>)]

\* The body of results.forEach for the outcome of one leg.
ProcessLeg(key, result, processedData) ==
    IF result.status = "fulfilled" /\ Truthy(result.data)
    THEN CASE key = "temel" -> _temelBilgilerIsle(result.data, processedData)
           [] key = "atasozleri" ->
                [processedData EXCEPT !.atasozleri = OrElse(result.data, Arr(<<>>))]
           [] key = "deyimler" ->
                [processedData EXCEPT !.deyimler = OrElse(result.data, Arr(<<>>))]
           [] key = "etimoloji" ->
                [processedData EXCEPT !.etimoloji = OrElse(result.data, Null)]
           [] OTHER -> processedData
    ELSE processedData

\* results.forEach(...), in index order, over the settled outcomes.
RECURSIVE ProcessResults(_, _, _)
ProcessResults(results, i, processedData) ==
    IF i > Len(Legs) THEN processedData
    ELSE ProcessResults(results, i + 1, ProcessLeg(Legs[i], results[Legs[i]], processedData))

\* tamVeri computed with some() in place of every().
DataMetadataSome(results, startTime, endTime) ==
    [islemSuresi |-> endTime - startTime,
     veriKaynaklari |-> Cardinality({k \in LegKeys : results[k].status = "fulfilled"}),
     tamVeri |-> \E k \in LegKeys : results[k].status = "fulfilled"]

\* veriKaynaklari counting the requests that delivered data, not those that
\* were fulfilled.
DataMetadataDelivered(results, startTime, endTime) ==
    [islemSuresi |-> endTime - startTime,
     veriKaynaklari |-> Cardinality({k \in LegKeys : /\ results[k].status = "fulfilled"
                                                      /\ Truthy(results[k].data)}),
     tamVeri |-> \A k \in LegKeys : results[k].status = "fulfilled"]

\* processedData.metadata
DataMetadata(results, startTime, endTime) ==
    [islemSuresi |-> endTime - startTime,
     veriKaynaklari |-> Cardinality({k \in LegKeys : results[k].status = "fulfilled"}),
     tamVeri |-> \A k \in LegKeys : results[k].status = "fulfilled"]

\* ------------------------------------------------------------- cache layer

\* node-cache: an entry [k, v, t] holds its expiry time t (0: never); an entry
\* is expired once the clock has passed t.
Expired(e, time) == e.t # 0 /\ e.t < time

\* cache.get(key): the values the lookup yields (none or one).
NodeCacheGet(store, key, time) ==
    {e.v : e \in {x \in store : x.k = key /\ ~Expired(x, time)}}

\* cache.get(key) deletes the entry it finds expired.
NodeCacheAfterGet(store, key, time) ==
    {x \in store : ~(x.k = key /\ Expired(x, time))}

\* cache.set(key, value, ttl) with a ttl in seconds.
NodeCacheSet(store, key, value, ttl, time) ==
    {x \in store : x.k # key}
        \cup {[k |-> key, v |-> value, t |-> IF ttl = 0 THEN 0 ELSE time + ttl]}

\* ----------------------------------------------------------------- options

\* An options object: the properties it has, and their values.
NoOptions == [has |-> {}, telaffuz |-> FALSE, cacheTTL |-> 0]

WithTelaffuz == [has |-> {"telaffuz"}, telaffuz |-> TRUE, cacheTTL |-> 0]

\* { telaffuz: true, cacheTTL: ShortTTL }
WithShortTTL == [has |-> {"telaffuz", "cacheTTL"}, telaffuz |-> TRUE, cacheTTL |-> ShortTTL]

\* The options callers pass over time.
OptionsSet == {NoOptions, WithShortTTL}

\* { dictionaries: ['gts'] }
WithDictionaries ==
    [has |-> {"dictionaries"}, telaffuz |-> FALSE, cacheTTL |-> 0,
     dictionaries |-> <<<<"g", "t", "s">>>>]

\* options.telaffuz, as a condition
TelaffuzOf(options) == "telaffuz" \in options.has /\ options.telaffuz

\* options.cacheTTL || 1800
CacheTTLOf(options) ==
    IF "cacheTTL" \in options.has /\ options.cacheTTL # 0 THEN options.cacheTTL ELSE AraTTL

RECURSIVE IntToChars(_)
IntToChars(n) ==
    LET digit == CASE n % 10 = 0 -> "0" [] n % 10 = 1 -> "1" [] n % 10 = 2 -> "2"
                   [] n % 10 = 3 -> "3" [] n % 10 = 4 -> "4" [] n % 10 = 5 -> "5"
                   [] n % 10 = 6 -> "6" [] n % 10 = 7 -> "7" [] n % 10 = 8 -> "8"
                   [] OTHER -> "9"
    IN  IF n < 10 THEN <<digit>> ELSE Append(IntToChars(n \div 10), digit)

Quoted(name) == <<"\"">> \o name \o <<"\"">>

\* The texts of parts with a comma between each two.
RECURSIVE JoinCommas(_)
JoinCommas(parts) ==
    IF parts = <<>> THEN <<>>
    ELSE IF Len(parts) = 1 THEN parts[1]
    ELSE parts[1] \o <<",">> \o JoinCommas(Tail(parts))

\* JSON.stringify(options)
JSONStringify(options) ==
    LET telaffuz ==
          IF "telaffuz" \in options.has
          THEN <<Quoted(<<"t", "e", "l", "a", "f", "f", "u", "z">>) \o <<":">>
                   \o (IF options.telaffuz THEN <<"t", "r", "u", "e">>
                       ELSE <<"f", "a", "l", "s", "e">>)>>
          ELSE <<>>
        cacheTTL ==
          IF "cacheTTL" \in options.has
          THEN <<Quoted(<<"c", "a", "c", "h", "e", "T", "T", "L">>) \o <<":">>
                   \o IntToChars(options.cacheTTL)>>
          ELSE <<>>
        dictionaries ==
          IF "dictionaries" \in options.has
          THEN <<Quoted(<<"d", "i", "c", "t", "i", "o", "n", "a", "r", "i", "e", "s">>)
                   \o <<":", "[">>
                   \o JoinCommas([i \in 1..Len(options.dictionaries) |->
                                     Quoted(options.dictionaries[i])])
                   \o <<"]">>>>
          ELSE <<>>
    IN  <<"{">> \o JoinCommas(telaffuz \o cacheTTL \o dictionaries) \o <<"}">>

\* The key without the options: `ara_${word}`.
AraKeyWordOnly(word, options) == <<"a", "r", "a", "_">> \o word

\* `ara_${word}_${JSON.stringify(options)}`
AraKey(word, options) ==
    <<"a", "r", "a", "_">> \o word \o <<"_">> \o JSONStringify(options)

\* ------------------------------------------------------------------- state

VARIABLES
    cacheEnabled,   \* this.cacheEnabled
    retryCount,     \* this.retryCount
    cache,          \* this.cache: the set of entries [k, v, t]
    remote,         \* the condition of the remote service: [down, transient]
    now,            \* the clock, in seconds
    budget,         \* how many operations the callers start
    started,        \* how many they have started
    pc,             \* per call: where it stands
    op,             \* per call: the operation and its arguments
    legs,           \* per call: the outcome of each request it has issued
    attempts,       \* per call: how often it invoked client.get for each request
    local,          \* per call: its local variables
    order,          \* per call: its requests in the order they settled, where observed
    ret             \* per call: the value it returned

vars == <<cacheEnabled, retryCount, cache, remote, now, budget, started, pc, op, legs,
          attempts, local, order, ret>>

\* The calls of one behaviour: a specification starts MaxOps of them, the
\* paging specification one more.
Calls == 1..(MaxOps + 1)

NoLegs == [k \in {} |-> Pending]

NoAttempts == [k \in {} |-> 0]

NoLocal == [none |-> TRUE]

NoOp == [name |-> "none"]

Unset == [returned |-> FALSE]

Returned(value) == [returned |-> TRUE, value |-> value]

\* The raw terms callers look up.
RawWords == {<<"E", "v">>, <<"s", "u">>}

\* The state after construction, for a given configuration and service condition.
InitWith(enabled, retries, condition, n) ==
    /\ cacheEnabled = enabled
    /\ retryCount = retries
    /\ cache = {}
    /\ remote = condition
    /\ now = 0
    /\ budget = n
    /\ started = 0
    /\ pc = [c \in Calls |-> "idle"]
    /\ op = [c \in Calls |-> NoOp]
    /\ legs = [c \in Calls |-> NoLegs]
    /\ attempts = [c \in Calls |-> NoAttempts]
    /\ local = [c \in Calls |-> NoLocal]
    /\ order = [c \in Calls |-> <<>>]
    /\ ret = [c \in Calls |-> Unset]

\* Calls are numbered in the order they start.
CanStart(c) == pc[c] = "idle" /\ c = started + 1 /\ started < budget

Config == <<cacheEnabled, retryCount, remote, budget>>

\* ------------------------------------------------------------ ara: fan-out

\* Promise.all in place of Promise.allSettled: the await throws on the first
\* rejection.
PromiseAll(results) ==
    IF \E k \in DOMAIN results : results[k].status = "rejected" THEN "throw"
    ELSE IF \E k \in DOMAIN results : results[k].status = "pending" THEN "wait"
    ELSE "resume"

\* Promise.race in place of Promise.allSettled: the await resumes with the
\* first promise that settles.
PromiseRace(results) ==
    IF \E k \in DOMAIN results : results[k].status # "pending" THEN "resume" ELSE "wait"

\* await Promise.allSettled(promises): "wait" while a promise is pending,
\* then "resume"; it never throws.
AllSettled(results) ==
    IF \E k \in DOMAIN results : results[k].status = "pending" THEN "wait" ELSE "resume"

\* The error result of the catch block of ara.
AraError(word, time) ==
    [success |-> FALSE,
     error |-> [message |-> "Sozluk sorgulanirken hata olustu"],
     metadata |-> [timestamp |-> time, searchWord |-> word]]

\* The success result of ara.
AraResult(temizKelime, data, time) ==
    [success |-> TRUE,
     data |-> data,
     metadata |-> [source |-> "TDK Sozluk", version |-> "2.5.0", timestamp |-> time,
                   searchWord |-> temizKelime, processingTime |-> Null]]

\* The entry stored without the ttl argument and the instance created with
\* stdTTL 0: it never expires.
AraStoreForever(store, word, options, result, time) ==
    IF cacheEnabled
    THEN NodeCacheSet(store, AraKey(word, options), result, 0, time)
    ELSE store

\* ara keeping complete records only: a record some source is missing from is
\* returned and not stored.
AraStoreComplete(store, word, options, result, time) ==
    IF cacheEnabled /\ result.data.metadata.tamVeri
    THEN NodeCacheSet(store, AraKey(word, options), result, CacheTTLOf(options), time)
    ELSE store

\* The cache after ara has produced result for (word, options).
AraStore(store, word, options, result, time) ==
    IF cacheEnabled
    THEN NodeCacheSet(store, AraKey(word, options), result, CacheTTLOf(options), time)
    ELSE store

\* A lookup table of finished results in place of the cache check: the result
\* of an earlier ara for the same word and options, whatever the configuration
\* and however old.
AraCachedOrTwin(word, options) ==
    {ret[d].value : d \in {x \in Calls : /\ pc[x] = "done"
                                         /\ op[x].name = "ara"
                                         /\ op[x].word = word
                                         /\ op[x].options = options}}

\* What the cache check of ara finds: nothing when caching is disabled.
AraCached(word, options) ==
    IF cacheEnabled THEN NodeCacheGet(cache, AraKey(word, options), now) ELSE {}

\* ara(word, options) inside call c up to its first suspension: the cache
\* check and, on a miss, kelimeTemizle and the eight requests of
\* tumVerileriGetir; on a hit the call goes on at position after.
AraBegin(c, word, options, after) ==
    LET key == AraKey(word, options)
        cached == AraCached(word, options)
    IN  IF cached # {}
        THEN /\ cache' = cache
             /\ ret' = [ret EXCEPT ![c] = Returned(CHOOSE v \in cached : TRUE)]
             /\ pc' = [pc EXCEPT ![c] = after]
             /\ UNCHANGED <<legs, attempts, local>>
        ELSE /\ cache' = IF cacheEnabled THEN NodeCacheAfterGet(cache, key, now)
                         ELSE cache
             /\ local' = [local EXCEPT ![c] =
                             [kelime |-> kelimeTemizle(word), startTime |-> now]]
             /\ legs' = [legs EXCEPT ![c] = [k \in LegKeys |-> Pending]]
             /\ attempts' = [attempts EXCEPT ![c] = [k \in LegKeys |-> 1]]
             /\ pc' = [pc EXCEPT ![c] = "fanout"]
             /\ UNCHANGED ret

\* ara(word, options) called by a caller of the instance.
AraCall(c, word, options) ==
    /\ CanStart(c)
    /\ started' = started + 1
    /\ op' = [op EXCEPT ![c] = [name |-> "ara", word |-> word, options |-> options]]
    /\ AraBegin(c, word, options, "done")
    /\ UNCHANGED <<Config, order, now>>

\* What the pending request key of call c settles to.
Outcome(c, key) ==
    Response(remote,
             IF key \in LegKeys THEN EndpointOf(key) ELSE key,
             encodeURIComponent(local[c].kelime),
             attempts[c][key])

\* The request key of call c settles.
Settle(c, key) ==
    /\ key \in DOMAIN legs[c]
    /\ legs[c][key].status = "pending"
    /\ legs' = [legs EXCEPT ![c][key] = Outcome(c, key)]
    /\ UNCHANGED <<Config, order, cache, now, started, pc, op, attempts, local, ret>>

\* The request key of call c settles, and an observer notes its turn.
SettleInTurn(c, key) ==
    /\ key \in DOMAIN legs[c]
    /\ legs[c][key].status = "pending"
    /\ legs' = [legs EXCEPT ![c][key] = Outcome(c, key)]
    /\ order' = [order EXCEPT ![c] = Append(order[c], key)]
    /\ UNCHANGED <<Config, cache, now, started, pc, op, attempts, local, ret>>

\* The pending requests of call c settle one after the other with nothing
\* else of the instance running in between.
SettleAll(c) ==
    /\ \E key \in DOMAIN legs[c] : legs[c][key].status = "pending"
    /\ legs' = [legs EXCEPT ![c] =
                   [key \in DOMAIN legs[c] |->
                       IF legs[c][key].status = "pending" THEN Outcome(c, key)
                       ELSE legs[c][key]]]
    /\ UNCHANGED <<Config, order, cache, now, started, pc, op, attempts, local, ret>>

\* ara returns result and stores it; rastgeleKelime, when it made the call,
\* goes on with the result.
AraReturn(c, data) ==
    LET result == AraResult(local[c].kelime, data, now)
    IN  /\ cache' = AraStore(cache, op[c].word, op[c].options, result, now)
        /\ ret' = [ret EXCEPT ![c] = Returned(result)]
        /\ pc' = [pc EXCEPT ![c] = IF op[c].name = "ara" THEN "done" ELSE "detay"]

\* The position of a request in the requests array.
IndexOf(key) == CHOOSE i \in 1..Len(Legs) : Legs[i] = key

\* The outcomes collected as they arrive: the i-th to settle lands in the i-th
\* place.
ResultsAsCompleted(c) ==
    [k \in LegKeys |->
        IF Len(order[c]) = Len(Legs) THEN legs[c][order[c][IndexOf(k)]] ELSE legs[c][k]]

\* results of `await Promise.allSettled(requests.map(r => r.promise))`, by the
\* key of requests[index]: results[index] is the outcome of requests[index].
Results(c) == [k \in LegKeys |-> legs[c][k]]

\* tumVerileriGetir resumes after the await: it merges the outcomes and either
\* asks for the pronunciation or finishes.
AraMerge(c) ==
    /\ pc[c] = "fanout"
    /\ AllSettled(legs[c]) # "wait"
    /\ LET processed == ProcessResults(Results(c), 1, EmptyData(local[c].kelime))
           metadata == DataMetadata(Results(c), local[c].startTime, now)
       IN  IF AllSettled(legs[c]) = "throw"
           THEN /\ ret' = [ret EXCEPT ![c] = Returned(AraError(op[c].word, now))]
                /\ pc' = [pc EXCEPT ![c] = "done"]
                /\ UNCHANGED <<cache, legs, attempts, local>>
           ELSE IF TelaffuzOf(op[c].options)
           THEN /\ local' = [local EXCEPT ![c] =
                               [kelime |-> local[c].kelime,
                                startTime |-> local[c].startTime,
                                processed |-> processed, metadata |-> metadata]]
                /\ legs' = [legs EXCEPT ![c] = ("ses" :> Pending) @@ legs[c]]
                /\ attempts' = [attempts EXCEPT ![c] = ("ses" :> 1) @@ attempts[c]]
                /\ pc' = [pc EXCEPT ![c] = "ses"]
                /\ UNCHANGED <<cache, ret>>
           ELSE /\ AraReturn(c, [metadata |-> metadata] @@ processed)
                /\ UNCHANGED <<legs, attempts, local>>
    /\ UNCHANGED <<Config, order, now, started, op>>

\* The record with the pronunciation counted as a ninth source: without it the
\* record is not complete.
SesDataCounted(processed, metadata, ses) ==
    [metadata |-> [metadata EXCEPT !.tamVeri = @ /\ ses.status = "fulfilled"]]
      @@ (IF ses.status = "fulfilled"
          THEN [sesDosyasi |-> OrElse(ses.data.v.sesDosyasi, Null)]
               @@ [processed EXCEPT !.telaffuz = OrElse(ses.data.v.telaffuz, Null)]
          ELSE processed)

\* The record of tumVerileriGetir when options.telaffuz is set: the fields of
\* a successful sesGetir are copied, and the metadata of the eight requests
\* is attached.
SesData(processed, metadata, ses) ==
    [metadata |-> metadata]
      @@ (IF ses.status = "fulfilled"
          THEN [sesDosyasi |-> OrElse(ses.data.v.sesDosyasi, Null)]
               @@ [processed EXCEPT !.telaffuz = OrElse(ses.data.v.telaffuz, Null)]
          ELSE processed)

\* sesGetir has settled: tumVerileriGetir copies the pronunciation, if any.
AraSes(c) ==
    /\ pc[c] = "ses"
    /\ legs[c]["ses"].status # "pending"
    /\ AraReturn(c, SesData(local[c].processed, local[c].metadata, legs[c]["ses"]))
    /\ UNCHANGED <<Config, order, now, started, op, legs, attempts, local>>

\* Time passes.
Tick ==
    /\ now + TimeStep <= MaxTime
    /\ now' = now + TimeStep
    /\ UNCHANGED <<Config, order, cache, started, pc, op, legs, attempts, local, ret>>

\* ------------------------------------------------ one lookup, all schedules

\* The service conditions of the fan-out specification: any set of the eight
\* endpoints of the lookup down for good, with or without the pronunciation
\* endpoint for three of them, or one endpoint down for a first attempt only.
LegEndpoints == {EndpointOf(k) : k \in LegKeys}

FanoutConditions ==
    [down : SUBSET LegEndpoints, transient : {FALSE}]
      \cup [down : {{"ses"}, {"ses", "gts"}, LegEndpoints \cup {"ses"}}, transient : {FALSE}]
      \cup [down : {{e} : e \in LegEndpoints}, transient : {TRUE}]

FanoutWords == {<<"E", "v">>, <<"s", "u">>}

FanoutOptions == {NoOptions, WithTelaffuz}

InitFanout ==
    \E condition \in FanoutConditions, retries \in {2, DefaultRetryCount} :
        InitWith(TRUE, retries, condition, 1)

LookupOnce ==
    \E c \in Calls, word \in FanoutWords, options \in FanoutOptions :
        AraCall(c, word, options)

StartAra == \E c \in Calls, word \in RawWords, options \in OptionsSet : AraCall(c, word, options)

SettleAny == \E c \in Calls, key \in LegKeys \cup Endpoints : Settle(c, key)

Merge == \E c \in Calls : AraMerge(c)

Ses == \E c \in Calls : AraSes(c)

NextFanout == LookupOnce \/ SettleAny \/ Merge \/ Ses

SpecFanout == InitFanout /\ [][NextFanout]_vars

\* --------------------------------------- one lookup, all completion orders

\* The service conditions of the completion-order specification.
OrderConditions ==
    {[down |-> {}, transient |-> FALSE],
     [down |-> {"atasozu", "etms"}, transient |-> FALSE]}

InitOrder == \E condition \in OrderConditions : InitWith(TRUE, DefaultRetryCount, condition, 1)

SettleNext == \E c \in Calls, key \in LegKeys : SettleInTurn(c, key)

LookupObserved == \E c \in Calls, word \in FanoutWords : AraCall(c, word, NoOptions)

NextOrder == LookupObserved \/ SettleNext \/ Merge

SpecOrder == InitOrder /\ [][NextOrder]_vars

\* --------------------------------------------------- the other operations

\* String.prototype.toLowerCase, one character at a time: the dotted capital
\* I becomes i followed by a combining dot, the capital I becomes i.
LowerJS(c) ==
    CASE c = "I" -> <<"i">>
      [] c = "I1" -> <<"i", "combining dot">>
      [] OTHER -> <<LowerTR(c)>>

toLowerCase(s) == Flat([i \in 1..Len(s) |-> LowerJS(s[i])])

\* String.prototype.toUpperCase, one character at a time.
UpperJS(c) ==
    IF \E u \in AsciiUpper \cup TurkishLetters : u # "I1" /\ LowerJS(u) = <<c>>
    THEN CHOOSE u \in AsciiUpper \cup TurkishLetters : u # "I1" /\ LowerJS(u) = <<c>>
    ELSE IF c = "i0" THEN "I" ELSE c

toUpperCase(s) == [i \in 1..Len(s) |-> UpperJS(s[i])]

StartsWith(s, prefix) ==
    Len(prefix) <= Len(s) /\ SubSeq(s, 1, Len(prefix)) = prefix

Min(a, b) == IF a <= b THEN a ELSE b

\* Array.prototype.slice(from, to) for 0 <= from <= to.
Slice(s, from, to) == SubSeq(s, from + 1, Min(to, Len(s)))

\* The literal word list of populerAramalar.
PopulerListe ==
    <<<<"m", "e", "r", "h", "a", "b", "a">>,
      <<"t", "e", "s,", "e", "k", "k", "u:", "r">>,
      <<"s", "e", "v", "g", "i">>,
      <<"a", "s,", "k">>,
      <<"m", "u", "t", "l", "u", "l", "u", "k">>,
      <<"k", "e", "l", "i", "m", "e">>,
      <<"t", "u:", "r", "k", "c,", "e">>,
      <<"d", "i", "l">>,
      <<"e", "d", "e", "b", "i", "y", "a", "t">>,
      <<"s,", "i", "i", "r">>,
      <<"r", "o", "m", "a", "n">>,
      <<"h", "i", "k", "a", "y", "e">>,
      <<"b", "i", "l", "i", "m">>,
      <<"t", "e", "k", "n", "o", "l", "o", "j", "i">>,
      <<"s", "a", "n", "a", "t">>,
      <<"m", "u:", "z", "i", "k">>,
      <<"r", "e", "s", "i", "m">>,
      <<"h", "e", "y", "k", "e", "l">>,
      <<"d", "o", "g^", "a">>,
      <<"h", "a", "y", "v", "a", "n">>,
      <<"b", "i", "t", "k", "i">>,
      <<"a", "g^", "a", "c,">>,
      <<"c,", "i", "c,", "e", "k">>,
      <<"s", "u">>,
      <<"h", "a", "v", "a">>,
      <<"t", "o", "p", "r", "a", "k">>,
      <<"g", "u:", "n", "e", "s,">>,
      <<"a", "y">>,
      <<"y", "i0", "l", "d", "i0", "z">>,
      <<"g", "e", "z", "e", "g", "e", "n">>,
      <<"e", "v", "r", "e", "n">>>>

\* What Math.random yields over one call of populerAramalar, as the search
\* count it gives the word at index i (0-based): all counts equal, or counts
\* rising with the index.
RandomSamples == {"flat", "rising"}

AramaSayisi(sample, i) ==
    CASE sample = "flat" -> 100
      [] sample = "rising" -> 100 + i

\* Insert x into the sequence s sorted by falling aramaSayisi, after its equals.
RECURSIVE InsertSorted(_, _)
InsertSorted(s, x) ==
    IF s = <<>> THEN <<x>>
    ELSE IF Head(s).aramaSayisi >= x.aramaSayisi
         THEN <<Head(s)>> \o InsertSorted(Tail(s), x)
         ELSE <<x>> \o s

\* Array.prototype.sort((a, b) => b.aramaSayisi - a.aramaSayisi): stable.
RECURSIVE SortBySayi(_)
SortBySayi(s) ==
    IF s = <<>> THEN <<>>
    ELSE InsertSorted(SortBySayi(SubSeq(s, 1, Len(s) - 1)), s[Len(s)])

PopulerKey(limit) ==
    <<"p", "o", "p", "u", "l", "e", "r", "_">> \o IntToChars(limit)

\* The result populerAramalar(limit) computes.
PopulerResult(limit, sample, time) ==
    LET kelimeler == Slice(PopulerListe, 0, limit)
    IN  [success |-> TRUE,
         data |-> Arr(SortBySayi([i \in 1..Len(kelimeler) |->
                    [kelime |-> kelimeler[i], aramaSayisi |-> AramaSayisi(sample, i - 1)]])),
         metadata |-> [timestamp |-> time]]

\* populerAramalar(limit) does not suspend: the value it returns and the
\* cache it leaves.
PopulerValue(store, limit, sample, time) ==
    LET cached == NodeCacheGet(store, PopulerKey(limit), time)
    IN  IF cached # {} THEN CHOOSE v \in cached : TRUE
        ELSE PopulerResult(limit, sample, time)

\* populerAramalar giving the list it finds cached new counts and sorting it
\* where it lies.
PopulerStoreResorting(store, limit, sample, time) ==
    IF NodeCacheGet(store, PopulerKey(limit), time) # {}
    THEN {IF x.k = PopulerKey(limit)
          THEN [x EXCEPT !.v = PopulerResult(limit, sample, x.v.metadata.timestamp)]
          ELSE x : x \in store}
    ELSE NodeCacheSet(store, PopulerKey(limit), PopulerResult(limit, sample, time),
                      PopulerTTL, time)

PopulerStore(store, limit, sample, time) ==
    IF NodeCacheGet(store, PopulerKey(limit), time) # {} THEN store
    ELSE NodeCacheSet(store, PopulerKey(limit), PopulerResult(limit, sample, time),
                      PopulerTTL, time)

\* populerAramalar(limit)
PopulerCall(c, limit, sample) ==
    /\ CanStart(c)
    /\ started' = started + 1
    /\ op' = [op EXCEPT ![c] = [name |-> "populerAramalar", limit |-> limit]]
    /\ ret' = [ret EXCEPT ![c] = Returned(PopulerValue(cache, limit, sample, now))]
    /\ cache' = PopulerStore(cache, limit, sample, now)
    /\ pc' = [pc EXCEPT ![c] = "done"]
    /\ UNCHANGED <<Config, order, now, legs, attempts, local>>

HarfKey(harf, sayfa) ==
    <<"h", "a", "r", "f", "_">> \o harf \o <<"_">> \o IntToChars(sayfa)

\* harfeGoreKelimeler(harf, sayfa, limit) up to its await: the cache check
\* and, on a miss, populerAramalar(100).
HarfCall(c, harf, sayfa, limit, sample) ==
    /\ CanStart(c)
    /\ started' = started + 1
    /\ op' = [op EXCEPT ![c] = [name |-> "harfeGoreKelimeler", harf |-> harf,
                                sayfa |-> sayfa, limit |-> limit]]
    /\ LET cached == NodeCacheGet(cache, HarfKey(harf, sayfa), now)
           looked == NodeCacheAfterGet(cache, HarfKey(harf, sayfa), now)
       IN  IF cached # {}
           THEN /\ cache' = cache
                /\ ret' = [ret EXCEPT ![c] = Returned(CHOOSE v \in cached : TRUE)]
                /\ pc' = [pc EXCEPT ![c] = "done"]
                /\ UNCHANGED local
           ELSE /\ cache' = PopulerStore(looked, 100, sample, now)
                /\ local' = [local EXCEPT ![c] =
                                [populerKelimeler |-> PopulerValue(looked, 100, sample, now)]]
                /\ pc' = [pc EXCEPT ![c] = "harf"]
                /\ UNCHANGED ret
    /\ UNCHANGED <<Config, order, now, legs, attempts>>

HarfMatches(harf, item) == StartsWith(toLowerCase(item.kelime), toLowerCase(harf))

\* harfeGoreKelimeler reporting an error when no word is under the letter.
HarfResultOrError(populerKelimeler, harf, sayfa, limit, time) ==
    LET matches(item) == HarfMatches(harf, item)
        filtrelenmis ==
          Slice(SelectSeq(populerKelimeler.data.v, matches),
                (sayfa - 1) * limit, sayfa * limit)
    IN  IF filtrelenmis = <<>>
        THEN [success |-> FALSE, error |-> "Harfe gore kelimeler alinamadi",
              metadata |-> [timestamp |-> time]]
        ELSE [success |-> TRUE,
              data |-> [harf |-> toUpperCase(harf), sayfa |-> sayfa, sayfaBoyutu |-> limit,
                        kelimeler |-> Arr(filtrelenmis),
                        toplamKelime |-> Len(filtrelenmis)],
              metadata |-> [timestamp |-> time]]

\* The result harfeGoreKelimeler builds from the popular list it obtained.
HarfResult(populerKelimeler, harf, sayfa, limit, time) ==
    LET matches(item) == HarfMatches(harf, item)
        filtrelenmis ==
          Slice(SelectSeq(populerKelimeler.data.v, matches),
                (sayfa - 1) * limit, sayfa * limit)
    IN  [success |-> TRUE,
         data |-> [harf |-> toUpperCase(harf), sayfa |-> sayfa, sayfaBoyutu |-> limit,
                   kelimeler |-> Arr(filtrelenmis),
                   toplamKelime |-> Len(filtrelenmis)],
         metadata |-> [timestamp |-> time]]

\* harfeGoreKelimeler after its await: filter, slice, store, return.
HarfReturn(c) ==
    /\ pc[c] = "harf"
    /\ LET harf == op[c].harf
           sayfa == op[c].sayfa
           result == HarfResult(local[c].populerKelimeler, harf, sayfa, op[c].limit, now)
       IN  /\ cache' = NodeCacheSet(cache, HarfKey(harf, sayfa), result, HarfTTL, now)
           /\ ret' = [ret EXCEPT ![c] = Returned(result)]
           /\ pc' = [pc EXCEPT ![c] = "done"]
    /\ UNCHANGED <<Config, order, now, started, op, legs, attempts, local>>

GununKey ==
    <<"g", "u", "n", "u", "n", "_", "k", "e", "l", "i", "m", "e", "s", "i", "_",
      "d", "a", "i", "l", "y">>

SecondsPerDay == 86400

\* gununKelimesi() up to its await: the cache check and the request.
GununCall(c) ==
    /\ CanStart(c)
    /\ started' = started + 1
    /\ op' = [op EXCEPT ![c] = [name |-> "gununKelimesi"]]
    /\ LET cached == NodeCacheGet(cache, GununKey, now)
       IN  IF cached # {}
           THEN /\ cache' = cache
                /\ ret' = [ret EXCEPT ![c] = Returned(CHOOSE v \in cached : TRUE)]
                /\ pc' = [pc EXCEPT ![c] = "done"]
                /\ UNCHANGED <<legs, attempts, local>>
           ELSE /\ cache' = NodeCacheAfterGet(cache, GununKey, now)
                /\ local' = [local EXCEPT ![c] = [kelime |-> <<>>]]
                /\ legs' = [legs EXCEPT ![c] = [k \in {"gunun-sozu"} |-> Pending]]
                /\ attempts' = [attempts EXCEPT ![c] = [k \in {"gunun-sozu"} |-> 1]]
                /\ pc' = [pc EXCEPT ![c] = "gunun"]
                /\ UNCHANGED ret
    /\ UNCHANGED <<Config, order, now>>

\* The value gununKelimesi returns for the settled request.
GununResult(response, time) ==
    IF response.status = "fulfilled"
    THEN [success |-> TRUE,
          data |-> [kelime |-> OrElse(response.data.v.madde, response.data.v.kelime),
                    anlam |-> response.data.v.anlam,
                    tarih |-> time \div SecondsPerDay,
                    kaynak |-> "TDK Gunun Sozu"],
          metadata |-> [timestamp |-> time, source |-> "gunun-sozu"]]
    ELSE [success |-> FALSE,
          error |-> "Gunun kelimesi alinamadi",
          metadata |-> [timestamp |-> time]]

\* The cache.set of gununKelimesi moved after its try and catch: whatever is
\* returned is stored.
GununStoreAny(store, response, time) ==
    NodeCacheSet(store, GununKey, GununResult(response, time), GununTTL, time)

\* The cache gununKelimesi leaves: cache.set is reached in the try block only.
GununStore(store, response, time) ==
    IF response.status = "fulfilled"
    THEN NodeCacheSet(store, GununKey, GununResult(response, time), GununTTL, time)
    ELSE store

\* gununKelimesi after its await: the result is stored, or the error returned.
GununReturn(c) ==
    /\ pc[c] = "gunun"
    /\ legs[c]["gunun-sozu"].status # "pending"
    /\ cache' = GununStore(cache, legs[c]["gunun-sozu"], now)
    /\ ret' = [ret EXCEPT ![c] = Returned(GununResult(legs[c]["gunun-sozu"], now))]
    /\ pc' = [pc EXCEPT ![c] = "done"]
    /\ UNCHANGED <<Config, order, now, started, op, legs, attempts, local>>

AtasozuKey(anahtar) == <<"a", "t", "a", "s", "o", "z", "u", "_">> \o anahtar

\* atasozuAra(anahtar) up to its await: the cache check and the two requests.
AtasozuCall(c, anahtar) ==
    /\ CanStart(c)
    /\ started' = started + 1
    /\ op' = [op EXCEPT ![c] = [name |-> "atasozuAra", anahtar |-> anahtar]]
    /\ LET cached == NodeCacheGet(cache, AtasozuKey(anahtar), now)
       IN  IF cached # {}
           THEN /\ cache' = cache
                /\ ret' = [ret EXCEPT ![c] = Returned(CHOOSE v \in cached : TRUE)]
                /\ pc' = [pc EXCEPT ![c] = "done"]
                /\ UNCHANGED <<legs, attempts, local>>
           ELSE /\ cache' = NodeCacheAfterGet(cache, AtasozuKey(anahtar), now)
                /\ local' = [local EXCEPT ![c] = [kelime |-> anahtar]]
                /\ legs' = [legs EXCEPT ![c] = [k \in {"atasozu", "deyim"} |-> Pending]]
                /\ attempts' = [attempts EXCEPT ![c] = [k \in {"atasozu", "deyim"} |-> 1]]
                /\ pc' = [pc EXCEPT ![c] = "atasozu"]
                /\ UNCHANGED ret
    /\ UNCHANGED <<Config, order, now>>

\* A source that failed reported as null, not as the empty list.
SettledListOrNull(res) ==
    IF res.status = "fulfilled" THEN OrElse(res.data, Arr(<<>>)) ELSE Null

\* res.status === 'fulfilled' ? res.value.data || [] : []
SettledList(res) ==
    IF res.status = "fulfilled" THEN OrElse(res.data, Arr(<<>>)) ELSE Arr(<<>>)

\* res.status === 'fulfilled' ? res.value.data?.length || 0 : 0
SettledLength(res) ==
    IF res.status = "fulfilled" /\ Truthy(res.data) THEN Len(res.data.v) ELSE 0

\* atasozuAra after its await on both requests.
AtasozuReturn(c) ==
    /\ pc[c] = "atasozu"
    /\ AllSettled(legs[c]) # "wait"
    /\ LET atasozuRes == legs[c]["atasozu"]
           deyimRes == legs[c]["deyim"]
           result ==
             [success |-> TRUE,
              data |-> [anahtar |-> op[c].anahtar,
                        atasozleri |-> SettledList(atasozuRes),
                        deyimler |-> SettledList(deyimRes),
                        toplam |-> SettledLength(atasozuRes) + SettledLength(deyimRes)],
              metadata |-> [timestamp |-> now]]
       IN  IF AllSettled(legs[c]) = "throw"
           THEN /\ cache' = cache
                /\ ret' = [ret EXCEPT ![c] =
                              Returned([success |-> FALSE,
                                        error |-> "Atasozu/deyim arama hatasi",
                                        metadata |-> [timestamp |-> now]])]
           ELSE /\ cache' = NodeCacheSet(cache, AtasozuKey(op[c].anahtar), result,
                                         AtasozuTTL, now)
                /\ ret' = [ret EXCEPT ![c] = Returned(result)]
    /\ pc' = [pc EXCEPT ![c] = "done"]
    /\ UNCHANGED <<Config, order, now, started, op, legs, attempts, local>>

\* String.prototype.startsWith in place of includes.
IncludesAtStart(s, sub) == Len(sub) <= Len(s) /\ SubSeq(s, 1, Len(sub)) = sub

\* String.prototype.includes
Includes(s, sub) ==
    \E i \in 0..(Len(s) - Len(sub)) : SubSeq(s, i + 1, i + Len(sub)) = sub

\* cacheTemizle(pattern) that also gives up the lookups waiting under the keys
\* it removes: they return at once and store nothing.
TemizleCancelling(c, pattern) ==
    /\ CanStart(c)
    /\ started' = started + 1
    /\ op' = [op EXCEPT ![c] = [name |-> "cacheTemizle", pattern |-> pattern]]
    /\ cache' = IF pattern = <<>> THEN {}
                ELSE {e \in cache : ~Includes(e.k, pattern)}
    /\ LET given == {d \in Calls : /\ op[d].name = "ara"
                                    /\ pc[d] \in {"fanout", "ses"}
                                    /\ \/ pattern = <<>>
                                       \/ Includes(AraKey(op[d].word, op[d].options), pattern)}
       IN  /\ ret' = [d \in Calls |-> IF d = c THEN Returned(Null)
                                       ELSE IF d \in given THEN Returned(AraError(op[d].word, now))
                                       ELSE ret[d]]
           /\ pc' = [d \in Calls |-> IF d = c \/ d \in given THEN "done" ELSE pc[d]]
    /\ UNCHANGED <<Config, order, now, legs, attempts, local>>

\* cacheTemizle(pattern); the empty pattern stands for a call without argument.
TemizleCall(c, pattern) ==
    /\ CanStart(c)
    /\ started' = started + 1
    /\ op' = [op EXCEPT ![c] = [name |-> "cacheTemizle", pattern |-> pattern]]
    /\ cache' = IF pattern = <<>> THEN {}
                ELSE {e \in cache : ~Includes(e.k, pattern)}
    /\ ret' = [ret EXCEPT ![c] = Returned(Null)]
    /\ pc' = [pc EXCEPT ![c] = "done"]
    /\ UNCHANGED <<Config, order, now, legs, attempts, local>>

\* The periodic check of node-cache (checkperiod) deletes the expired entries.
Sweep ==
    /\ \E e \in cache : Expired(e, now)
    /\ cache' = {e \in cache : ~Expired(e, now)}
    /\ UNCHANGED <<Config, order, now, started, pc, op, legs, attempts, local, ret>>

\* ------------------------------------------------------- the whole instance

\* The service conditions of Spec: everything up, or three endpoints down.
Conditions ==
    {[down |-> {}, transient |-> FALSE],
     [down |-> {"atasozu", "etms", "gunun-sozu"}, transient |-> FALSE]}

Init ==
    \E enabled \in BOOLEAN, condition \in Conditions :
        InitWith(enabled, DefaultRetryCount, condition, MaxOps)

\* The arguments callers pass.
Anahtarlar == {<<"e", "v">>}

PopulerLimits == {2, 100}

Harfler == {<<"H">>}

Sayfalar == {1, 2}

SayfaBoyutlari == {2}

\* In Spec and SpecOps the responses to the requests of one call arrive
\* together: how the completions of one fan-out interleave is the subject of
\* SpecFanout.
SettleCall == \E c \in Calls : SettleAll(c)

StartPopuler ==
    \E c \in Calls, limit \in PopulerLimits, sample \in RandomSamples :
        PopulerCall(c, limit, sample)

StartHarf ==
    \E c \in Calls, harf \in Harfler, sayfa \in Sayfalar, limit \in SayfaBoyutlari,
       sample \in RandomSamples :
        HarfCall(c, harf, sayfa, limit, sample)

FinishHarf == \E c \in Calls : HarfReturn(c)

StartGunun == \E c \in Calls : GununCall(c)

FinishGunun == \E c \in Calls : GununReturn(c)

StartAtasozu == \E c \in Calls, anahtar \in Anahtarlar : AtasozuCall(c, anahtar)

FinishAtasozu == \E c \in Calls : AtasozuReturn(c)

\* The patterns callers clear the cache with: none, a prefix of keys, a piece
\* of keys, a whole key.
Patterns == {<<>>, <<"a", "r", "a", "_">>, <<"s", "u">>, PopulerKey(100)}

Temizle == \E c \in Calls, pattern \in Patterns : TemizleCall(c, pattern)

\* The lookups of one instance: ara from concurrent callers, over time.
Next == StartAra \/ SettleCall \/ Merge \/ Ses \/ Sweep \/ Tick

Spec == Init /\ [][Next]_vars

\* The cache-aware operations of one instance, at one time.
NextOps ==
    \/ StartAra
    \/ SettleCall
    \/ Merge
    \/ Ses
    \/ StartPopuler
    \/ StartHarf
    \/ FinishHarf
    \/ StartGunun
    \/ FinishGunun
    \/ StartAtasozu
    \/ FinishAtasozu
    \/ Temizle

SpecOps == Init /\ [][NextOps]_vars

\* ------------------------------------------------- properties of the fan-out

\* The calls of ara that went through the fan-out and have returned.
LookedUp == {c \in Calls : op[c].name = "ara" /\ pc[c] = "done" /\ DOMAIN legs[c] # {}}

FailedLegs(c) == {k \in LegKeys : legs[c][k].status = "rejected"}

\* C1: whatever set of legs fails, all of them included, ara returns a success
\* result that carries an aggregated record, and every leg whose endpoint is
\* up is fulfilled: no failure cancels a sibling.
C1_AraAbsorbsLegFailures ==
    \A c \in LookedUp :
        /\ ret[c].returned
        /\ ret[c].value.success
        /\ "data" \in DOMAIN ret[c].value
        /\ ret[c].value.data.kelime = kelimeTemizle(op[c].word)
        /\ \A k \in LegKeys :
              EndpointOf(k) \notin remote.down => legs[c][k].status = "fulfilled"

\* C1 witness: a lookup all of whose legs failed has returned success.
C1_Witness ==
    \E c \in LookedUp : FailedLegs(c) = LegKeys /\ ret[c].value.success

\* A proper, non-empty subset of the legs failed.
C1_WitnessSome ==
    \E c \in LookedUp : FailedLegs(c) \notin {{}, LegKeys} /\ ret[c].value.success

\* C2: once tumVerileriGetir has gone past its await (it asks for the
\* pronunciation, or ara has returned), no leg of the lookup is pending.
C2_WaitsForEveryLeg ==
    \A c \in Calls :
        (op[c].name = "ara" /\ pc[c] \in {"ses", "done"} /\ DOMAIN legs[c] # {})
            => \A k \in LegKeys : legs[c][k].status # "pending"

\* C2 witness: a lookup has returned with legs that failed and legs that succeeded.
C2_Witness ==
    \E c \in LookedUp :
        /\ \E k \in LegKeys : legs[c][k].status = "rejected"
        /\ \E k \in LegKeys : legs[c][k].status = "fulfilled"

\* C3: metadata.tamVeri is false exactly when a leg of the lookup failed, which
\* is exactly when one of the lookup's endpoints is down.
C3_CompleteIffNoLegFailed ==
    \A c \in LookedUp :
        /\ ret[c].value.data.metadata.tamVeri = (FailedLegs(c) = {})
        /\ ret[c].value.data.metadata.tamVeri = (remote.down \cap LegEndpoints = {})

\* C3 witness: an incomplete record, from a lookup with one failed leg.
C3_Witness ==
    \E c \in LookedUp :
        Cardinality(FailedLegs(c)) = 1 /\ ~ret[c].value.data.metadata.tamVeri

\* The fields that C4 names, by the request key of their sub-dictionary.
ListFields == {"atasozleri", "deyimler", "derleme", "terim", "bati", "kilavuz", "etimoloji"}

\* C4: in every aggregated record each of the seven list fields is a key of
\* the record and holds a list, the empty list when its leg failed.
C4_ListFieldsPresent ==
    \A c \in LookedUp :
        \A f \in ListFields :
            /\ f \in DOMAIN ret[c].value.data
            /\ ret[c].value.data[f].t = "array"
            /\ legs[c][f].status = "rejected" => ret[c].value.data[f].v = <<>>

\* C5: the payload of every leg that succeeded with one is in the record, in
\* the field of that leg (the primary payload as temelBilgiler).
C5_SucceededPayloadsExposed ==
    \A c \in LookedUp :
        \A k \in LegKeys :
            (legs[c][k].status = "fulfilled" /\ Truthy(legs[c][k].data)
                /\ legs[c][k].data.v # <<>>)
            => IF k = "temel"
               THEN ret[c].value.data.temelBilgiler.t = "object"
               ELSE /\ k \in DOMAIN ret[c].value.data
                    /\ ret[c].value.data[k] = legs[c][k].data

\* maxAttempts: the first try and retryCount retries.
MaxAttempts == retryCount + 1

\* C6: a leg recorded as failed was invoked exactly maxAttempts times.
C6_FailedLegUsedAllAttempts ==
    \A c \in Calls :
        \A k \in DOMAIN legs[c] \cap LegKeys :
            legs[c][k].status = "rejected" => attempts[c][k] = MaxAttempts

\* C7: a leg whose endpoint fails a first attempt only is recorded as a
\* success, and the record is complete.
C7_TransientFailureRetried ==
    \A c \in LookedUp :
        remote.transient =>
            /\ \A k \in LegKeys : legs[c][k].status = "fulfilled"
            /\ ret[c].value.data.metadata.tamVeri

\* --------------------------------------------------- properties of the cache

\* The entries of the cache under the key of ara(word, options).
AraEntries(word, options) == {e \in cache : e.k = AraKey(word, options)}

\* Call c starts as ara in this step.
AraStarts(c) == pc[c] = "idle" /\ pc'[c] # "idle" /\ op'[c].name = "ara"

\* Call c, an ara that went through the fan-out, returns in this step.
AraCompletes(c) == pc[c] \in {"fanout", "ses"} /\ pc'[c] = "done"

\* Call c is served from the cache in this step: it returns value at once and
\* has issued no request.
ServedFromCache(c, value) ==
    /\ pc'[c] = "done"
    /\ ret'[c] = Returned(value)
    /\ legs'[c] = NoLegs
    /\ attempts'[c] = NoAttempts

\* Call c starts a fan-out in this step: one request to each of the eight legs.
StartsFanout(c) ==
    /\ pc'[c] = "fanout"
    /\ ~ret'[c].returned
    /\ DOMAIN legs'[c] = LegKeys
    /\ \A k \in LegKeys : legs'[c][k] = Pending /\ attempts'[c][k] = 1

\* C8: with caching enabled, an ara that returns from the fan-out leaves its
\* result under its key, to expire its TTL later; an ara that starts while the
\* entry of its key has not reached its expiry time returns the stored value
\* and issues no request; one that starts after the expiry time, or with no
\* entry, performs a new fan-out.
C8_StoredResultServedUntilTTL ==
    [][cacheEnabled =>
        \A c \in Calls :
            /\ AraCompletes(c) =>
                  [k |-> AraKey(op[c].word, op[c].options), v |-> ret'[c].value,
                   t |-> now + CacheTTLOf(op[c].options)] \in cache'
            /\ AraStarts(c) =>
                  LET entries == AraEntries(op'[c].word, op'[c].options)
                  IN  /\ \A e \in entries : now < e.t => ServedFromCache(c, e.v)
                      /\ (\A e \in entries : now > e.t) => StartsFanout(c)]_vars

\* The calls of ara that were served from the cache.
CacheHits == {c \in Calls : op[c].name = "ara" /\ pc[c] = "done" /\ legs[c] = NoLegs}

\* C8 witness: a second ara was served the entry the first one stored, at a
\* later time than the first one returned.
C8_Witness ==
    \E c \in CacheHits :
        /\ ret[c].returned
        /\ ret[c].value.metadata.timestamp < now
        /\ \E d \in LookedUp : d < c /\ ret[d] = ret[c]

\* An ara found the entry of its key expired and has performed a new fan-out.
C8_WitnessExpired ==
    \E c, d \in LookedUp :
        /\ cacheEnabled
        /\ d < c
        /\ op[c].word = op[d].word /\ op[c].options = op[d].options
        /\ ret[d].value.metadata.timestamp + CacheTTLOf(op[d].options) < local[c].startTime

\* The outcomes of a fan-out for term kelime that meets the service in its
\* present condition.
DirectResults(kelime) ==
    [k \in LegKeys |-> Response(remote, EndpointOf(k), encodeURIComponent(kelime), 1)]

\* The record a lookup without any cache produces, without its timing.
DirectRecord(word, options) ==
    LET kelime == kelimeTemizle(word)
        results == DirectResults(kelime)
        processed == ProcessResults(results, 1, EmptyData(kelime))
        ses == Response(remote, "ses", encodeURIComponent(kelime), 1)
        withSes ==
          IF TelaffuzOf(options) /\ ses.status = "fulfilled"
          THEN [sesDosyasi |-> OrElse(ses.data.v.sesDosyasi, Null)]
               @@ [processed EXCEPT !.telaffuz = OrElse(ses.data.v.telaffuz, Null)]
          ELSE processed
    IN  [veriKaynaklari |-> DataMetadata(results, 0, 0).veriKaynaklari,
         tamVeri |-> DataMetadata(results, 0, 0).tamVeri] @@ withSes

\* The content of a result of ara: everything but the timestamp and the
\* elapsed time.
Content(result) ==
    [success |-> result.success,
     searchWord |-> result.metadata.searchWord,
     record |-> [veriKaynaklari |-> result.data.metadata.veriKaynaklari,
                 tamVeri |-> result.data.metadata.tamVeri]
                @@ [f \in DOMAIN result.data \ {"metadata"} |-> result.data[f]]]

\* C9: whether the instance caches or not, every ara(word, options) returns
\* the content a lookup of (word, options) without a cache produces from the
\* service's responses: the two instances agree on every call of any sequence.
C9_CacheTransparent ==
    \A c \in Calls :
        (op[c].name = "ara" /\ pc[c] = "done") =>
            /\ ret[c].returned
            /\ ret[c].value.success
            /\ Content(ret[c].value) =
                 [success |-> TRUE, searchWord |-> kelimeTemizle(op[c].word),
                  record |-> DirectRecord(op[c].word, op[c].options)]

\* C9 witness: a caching instance served a lookup with pronunciation from its
\* cache.
C9_Witness ==
    \E c \in CacheHits :
        /\ cacheEnabled
        /\ TelaffuzOf(op[c].options)
        /\ "sesDosyasi" \in DOMAIN ret[c].value.data

\* C10: an instance created with caching disabled stores nothing, and each of
\* its cache-aware operations that has returned computed its result: it sent
\* its requests, or built its list at the time of the call.
C10_DisabledCacheUnused ==
    ~cacheEnabled =>
        /\ cache = {}
        /\ \A c \in Calls :
              (pc[c] = "done" /\ op[c].name \in {"ara", "gununKelimesi", "atasozuAra"})
                  => DOMAIN legs[c] # {}

\* C12: cacheTemizle(p) with a non-empty p removes the entries whose key starts
\* with p and leaves every other entry as it was.
C12_TemizleRemovesPrefixOnly ==
    [][\A c \in Calls :
          (/\ pc[c] = "idle" /\ pc'[c] = "done"
           /\ op'[c].name = "cacheTemizle"
           /\ op'[c].pattern # <<>>)
              => cache' = {e \in cache : ~StartsWith(e.k, op'[c].pattern)}]_vars

\* Call c, a cacheTemizle with an argument, runs in this step.
TemizleRuns(c) ==
    /\ pc[c] = "idle" /\ pc'[c] = "done"
    /\ op'[c].name = "cacheTemizle"
    /\ op'[c].pattern # <<>>

\* Key holds pattern somewhere: one of its suffixes starts with it.
Holds(key, pattern) ==
    \E i \in 1..Len(key) : StartsWith(SubSeq(key, i, Len(key)), pattern)

\* C12 as amended: cacheTemizle(p) with a non-empty p removes the entries whose
\* key holds p anywhere, those that start with p or equal p among them, and
\* leaves every other entry as it was.
C12_TemizleRemovesMatching ==
    [][\A c \in Calls :
          TemizleRuns(c) =>
              /\ cache' \subseteq cache
              /\ \A e \in cache : e \in cache' <=> ~Holds(e.k, op'[c].pattern)]_vars

\* C12 witness: a cacheTemizle with an argument has removed the entry of an
\* earlier ara, whose key holds the pattern but does not start with it.
C12_Witness ==
    \E c \in Calls, d \in LookedUp :
        /\ cacheEnabled
        /\ d < c
        /\ op[c].name = "cacheTemizle" /\ pc[c] = "done"
        /\ op[c].pattern # <<>>
        /\ Holds(AraKey(op[d].word, op[d].options), op[c].pattern)
        /\ ~StartsWith(AraKey(op[d].word, op[d].options), op[c].pattern)
        /\ AraEntries(op[d].word, op[d].options) = {}

\* ------------------------------------------------- spellings of one term

\* Raw terms that kelimeTemizle maps to the same term, and two that it maps
\* to the empty string.
Terms == {<<"E", "v">>, <<"e", "v">>, <<>>, <<" ">>}

StartTerm ==
    \E c \in Calls, word \in Terms, options \in OptionsSet \cup {WithDictionaries} :
        AraCall(c, word, options)

\* The lookups of one instance for the spellings of a term, at one time.
NextTerms == StartTerm \/ SettleCall \/ Merge \/ Ses

SpecTerms == Init /\ [][NextTerms]_vars

\* Two lookups with the same normalized term and equal options.
SameLookup(word1, options1, word2, options2) ==
    kelimeTemizle(word1) = kelimeTemizle(word2) /\ options1 = options2

\* C11: with caching enabled, an ara that starts while the result of an
\* earlier ara with the same normalized term (not the empty one) and equal
\* options is stored and has not reached its expiry time is served that result
\* and issues no request.
C11_EquivalentLookupsShareEntry ==
    [][cacheEnabled =>
        \A c \in Calls :
            AraStarts(c) =>
                \A d \in LookedUp :
                    (/\ kelimeTemizle(op[d].word) # <<>>
                     /\ SameLookup(op[d].word, op[d].options, op'[c].word, op'[c].options)
                     /\ \E e \in AraEntries(op[d].word, op[d].options) : now < e.t)
                        => ServedFromCache(c, ret[d].value)]_vars

\* C13: an ara whose term normalizes to the empty string returns an error
\* result, has issued no request and has left nothing under its key.
C13_EmptyTermRejected ==
    \A c \in Calls :
        (op[c].name = "ara" /\ kelimeTemizle(op[c].word) = <<>>) =>
            /\ pc[c] = "done"
            /\ ret[c].returned /\ ~ret[c].value.success
            /\ legs[c] = NoLegs
            /\ AraEntries(op[c].word, op[c].options) = {}

\* ------------------------------------------- properties of completion order

\* C14: whatever order the eight requests of a lookup complete in, each
\* outcome is the one of the sub-dictionary its request was sent to, and the
\* aggregated record is the one the outcomes give when taken in issue order.
C14_OutcomesByIssueOrder ==
    \A c \in LookedUp :
        /\ \A k \in LegKeys : legs[c][k] = DirectResults(local[c].kelime)[k]
        /\ Content(ret[c].value).record = DirectRecord(op[c].word, op[c].options)

\* C14 witness: a lookup has returned whose requests completed in another
\* order than they were issued, the last one first, some of them failing.
C14_Witness ==
    \E c \in LookedUp :
        /\ Len(order[c]) = Len(Legs)
        /\ order[c] # Legs
        /\ order[c][1] = Legs[Len(Legs)]
        /\ FailedLegs(c) # {}

\* ------------------------------------------- properties of concurrent lookups

\* The entries under the key of ara(word, options) that have not passed their
\* expiry time.
FreshEntries(word, options) ==
    {e \in AraEntries(word, options) : e.t = 0 \/ now <= e.t}

\* The requests of call c that were fulfilled.
FulfilledLegs(c) == {k \in LegKeys : legs[c][k].status = "fulfilled"}

InFlight(c) == op[c].name = "ara" /\ pc[c] \in {"fanout", "ses"}

\* C16: at any moment at most one fan-out is in flight for a given word and
\* options.
C16_AtMostOneFanoutInFlight ==
    \A c, d \in Calls :
        (/\ c # d
         /\ InFlight(c) /\ InFlight(d)
         /\ op[c].word = op[d].word)
            => op[c].options # op[d].options

\* ---------------------------------------------------------- kelimeTemizle

\* The characters of the texts callers pass to kelimeTemizle.
TextAlphabet == {"a", "K", "I", "I1", "S,", Space, Tab, "!", Ligature}

\* ISTANBUL with a dotted capital I, and ISIK with S-cedilla.
Istanbul == <<"I1", "S", "T", "A", "N", "B", "U", "L">>

Isik == <<"I", "S,", "I", "K">>

\* The texts: every text of at most MaxLen characters, and the two words.
Texts ==
    UNION {[1..n -> TextAlphabet] : n \in 0..MaxLen} \cup {Istanbul, Isik}

\* kelimeTemizle(word), called on the instance.
KelimeTemizleCall(c, word) ==
    /\ CanStart(c)
    /\ started' = started + 1
    /\ op' = [op EXCEPT ![c] = [name |-> "kelimeTemizle", word |-> word]]
    /\ ret' = [ret EXCEPT ![c] = Returned(kelimeTemizle(word))]
    /\ pc' = [pc EXCEPT ![c] = "done"]
    /\ UNCHANGED <<Config, order, cache, now, legs, attempts, local>>

\* A caller normalizes a text.
Normalize == \E word \in Texts : KelimeTemizleCall(1, word)

\* The caller normalizes what it got back.
NormalizeAgain == KelimeTemizleCall(2, ret[1].value)

InitText == InitWith(TRUE, DefaultRetryCount, [down |-> {}, transient |-> FALSE], 2)

NextText == Normalize \/ NormalizeAgain

SpecText == InitText /\ [][NextText]_vars

\* The calls of kelimeTemizle that have returned.
Normalized == {c \in Calls : op[c].name = "kelimeTemizle" /\ pc[c] = "done"}

\* C17: normalizing the output of kelimeTemizle gives that output back.
C17_KelimeTemizleIdempotent ==
    \A c, d \in Normalized : op[d].word = ret[c].value => ret[d].value = ret[c].value

\* C18: the output of kelimeTemizle neither starts nor ends with whitespace,
\* and has no two whitespace characters in a row.
C18_NoOuterOrDoubleWhitespace ==
    \A c \in Normalized :
        LET out == ret[c].value
        IN  /\ out # <<>> => out[1] \notin {Space, Tab} /\ out[Len(out)] \notin {Space, Tab}
            /\ \A i \in 1..(Len(out) - 1) :
                   ~(out[i] \in {Space, Tab} /\ out[i + 1] \in {Space, Tab})

\* The lower case of the capital letters of the texts, by the Turkish rule.
TurkishFold ==
    [x \in {"I1", "I", "S,", "K", "S", "T", "A", "N", "B", "U", "L"} |->
        CASE x = "I1" -> "i" [] x = "I" -> "i0" [] x = "S," -> "s," [] x = "K" -> "k"
          [] x = "S" -> "s" [] x = "T" -> "t" [] x = "A" -> "a" [] x = "N" -> "n"
          [] x = "B" -> "b" [] x = "U" -> "u" [] x = "L" -> "l"]

\* A text of letters only.
Letters(word) ==
    \A i \in 1..Len(word) : word[i] \in DOMAIN TurkishFold \cup {"a"}

\* C19: no capital letter is left in the output of kelimeTemizle; of a text of
\* letters, every dotted capital I has become i, every capital I the dotless
\* i, every other capital its lower case, and no letter is lost: ISTANBUL with
\* the dotted I gives istanbul and ISIK with S-cedilla its lower case with two
\* dotless i.
C19_TurkishCaseFolding ==
    \A c \in Normalized :
        LET word == op[c].word
            out == ret[c].value
        IN  /\ \A i \in 1..Len(out) : out[i] \notin DOMAIN TurkishFold
            /\ Letters(word) =>
                  /\ Len(out) = Len(word)
                  /\ \A i \in 1..Len(word) :
                         out[i] = IF word[i] \in DOMAIN TurkishFold
                                  THEN TurkishFold[word[i]] ELSE word[i]
            /\ word = Istanbul => out = <<"i", "s", "t", "a", "n", "b", "u", "l">>
            /\ word = Isik => out = <<"i0", "s,", "i0", "k">>

\* C19 witness: ISIK has been normalized, and its output once more.
C19_Witness ==
    \E c, d \in Normalized :
        /\ op[c].word = Isik
        /\ ret[c].value = <<"i0", "s,", "i0", "k">>
        /\ op[d].word = ret[c].value

\* ---------------------------------------------------------- wildcard search

\* The methods class TDKSozluk defines.
Methods ==
    {"ara", "gununKelimesi", "yazimDenetimi", "atasozuAra", "benzerKelimeler",
     "harfeGoreKelimeler", "populerAramalar", "rastgeleKelime", "sesGetir",
     "cacheTemizle", "cacheIstatistik", "tumVerileriGetir", "_temelBilgilerIsle",
     "_kullanimTuruBelirle", "_onerilerGetir", "kelimeTemizle"}

\* What evaluating tdk.asteriskAra(pattern) gives: the property lookup finds
\* no method of that name and the call throws a TypeError.
AsteriskOutcome(pattern) ==
    [threw |-> TRUE, error |-> "TypeError: tdk.asteriskAra is not a function"]

\* await tdk.asteriskAra(pattern), as the README calls it.
AsteriskCall(c, pattern) ==
    /\ CanStart(c)
    /\ "asteriskAra" \notin Methods
    /\ started' = started + 1
    /\ op' = [op EXCEPT ![c] = [name |-> "asteriskAra", pattern |-> pattern]]
    /\ ret' = [ret EXCEPT ![c] = Returned(AsteriskOutcome(pattern))]
    /\ pc' = [pc EXCEPT ![c] = "done"]
    /\ UNCHANGED <<Config, order, cache, now, legs, attempts, local>>

\* The patterns callers search with: those of the README, and every short one.
AsteriskPatterns ==
    {<<"k", "?", "t", "a", "p">>, <<"k", "*", "p", ",", "5">>}
        \cup UNION {[1..n -> {"k", "?", "*"}] : n \in 1..MaxLen}

AsteriskSearch == \E c \in Calls, pattern \in AsteriskPatterns : AsteriskCall(c, pattern)

NextAsterisk == AsteriskSearch

SpecAsterisk == Init /\ [][NextAsterisk]_vars

\* The pattern without its length clause, and the length the clause asks for
\* (0 without a clause).
PatternBody(pattern) ==
    IF \E i \in 1..Len(pattern) : pattern[i] = ","
    THEN SubSeq(pattern, 1, (CHOOSE i \in 1..Len(pattern) : pattern[i] = ",") - 1)
    ELSE pattern

PatternLength(pattern) ==
    IF \E i \in 1..Len(pattern) : pattern[i] = ","
    THEN LET digit == pattern[(CHOOSE i \in 1..Len(pattern) : pattern[i] = ",") + 1]
         IN  CHOOSE n \in 0..9 : IntToChars(n) = <<digit>>
    ELSE 0

\* ? stands for one character, * for any number of them, every other
\* character for itself in either case.
RECURSIVE Glob(_, _)
Glob(body, term) ==
    IF body = <<>> THEN term = <<>>
    ELSE IF Head(body) = "*"
         THEN Glob(Tail(body), term) \/ (term # <<>> /\ Glob(body, Tail(term)))
         ELSE /\ term # <<>>
              /\ Head(body) = "?" \/ LowerTR(Head(body)) = LowerTR(Head(term))
              /\ Glob(Tail(body), Tail(term))

WildcardMatches(pattern, term) ==
    /\ Glob(PatternBody(pattern), term)
    /\ PatternLength(pattern) # 0 => Len(term) = PatternLength(pattern)

\* Terms the search is tried on.
Candidates ==
    {<<"k", "i", "t", "a", "p">>, <<"k", "a", "t", "a", "p">>,
     <<"k", "i", "i", "t", "a", "p">>, <<"K", "a", "l", "i0", "p">>, <<"k", "i", "p">>}

\* C20: asteriskAra(pattern) returns, and of the terms it is tried on it
\* reports those that match the pattern: ? for one character, * for any
\* number, a trailing ,N for terms of length N, in either case.
C20_WildcardSearch ==
    \A c \in Calls :
        (op[c].name = "asteriskAra" /\ pc[c] = "done") =>
            /\ ~ret[c].value.threw
            /\ \A term \in Candidates :
                   term \in ret[c].value.matches <=> WildcardMatches(op[c].pattern, term)

\* ------------------------------------------------ pages of a letter's words

\* One instance with every endpoint up, asked for pages of the words under
\* h, with two page sizes, one call more than MaxOps.
InitPages ==
    InitWith(TRUE, DefaultRetryCount, [down |-> {}, transient |-> FALSE], MaxOps + 1)

PageSizes == {1, 2}

LookupPage ==
    \E c \in Calls, sayfa \in Sayfalar, limit \in PageSizes, sample \in RandomSamples :
        HarfCall(c, <<"h">>, sayfa, limit, sample)

NextPages == LookupPage \/ FinishHarf

SpecPages == InitPages /\ [][NextPages]_vars

\* The calls of harfeGoreKelimeler that have returned, and the terms of one.
Paged == {c \in Calls : op[c].name = "harfeGoreKelimeler" /\ pc[c] = "done"}

PageTerms(c) ==
    {ret[c].value.data.kelimeler.v[i].kelime :
        i \in 1..Len(ret[c].value.data.kelimeler.v)}

\* C21: whatever was called before, harfeGoreKelimeler(letter, page, pageSize)
\* returns at most pageSize terms, each starting with the letter when case is
\* ignored.
C21_PageWithinSizeAndLetter ==
    \A c \in Paged :
        /\ Len(ret[c].value.data.kelimeler.v) <= op[c].limit
        /\ \A w \in PageTerms(c) : StartsWith(toLowerCase(w), toLowerCase(op[c].harf))

\* C22: for one letter and one page size, the terms returned for two
\* different pages have no term in common.
C22_PagesDisjoint ==
    \A c, d \in Paged :
        (/\ op[c].harf = op[d].harf
         /\ op[c].limit = op[d].limit
         /\ op[c].sayfa # op[d].sayfa)
            => PageTerms(c) \cap PageTerms(d) = {}

\* ------------------------------------------ similar words, spelling check

\* String.prototype.charAt(0)
CharAt0(s) == IF s = <<>> THEN <<>> ELSE <<s[1]>>

\* The filter of benzerKelimeler without its comparison to the input.
BenzerMatchesSelfToo(temizKelime, item) ==
    LET digerKelime == kelimeTemizle(item.kelime)
    IN  \/ StartsWith(digerKelime, Slice(temizKelime, 0, 3))
        \/ Includes(digerKelime, Slice(temizKelime, 1, 4))

\* The filter of benzerKelimeler on one item of the letter's page.
BenzerMatches(temizKelime, item) ==
    LET digerKelime == kelimeTemizle(item.kelime)
    IN  /\ digerKelime # temizKelime
        /\ \/ StartsWith(digerKelime, Slice(temizKelime, 0, 3))
           \/ Includes(digerKelime, Slice(temizKelime, 1, 4))

\* The result benzerKelimeler builds once harfeGoreKelimeler has answered.
BenzerResult(kelime, limit, response, time) ==
    IF ~response.success THEN response
    ELSE LET temizKelime == kelimeTemizle(kelime)
             keep(item) == BenzerMatches(temizKelime, item)
             picked == Slice(SelectSeq(response.data.kelimeler.v, keep), 0, limit)
             benzerler == [i \in 1..Len(picked) |-> picked[i].kelime]
         IN  [success |-> TRUE,
              data |-> [anaKelime |-> kelime, benzerKelimeler |-> Arr(benzerler),
                        sayi |-> Len(benzerler)],
              metadata |-> [timestamp |-> time, algoritma |-> "basit-benzerlik"]]

\* benzerKelimeler(kelime, ...) as far as the first await that suspends it:
\* harfeGoreKelimeler(ilkHarf, 1, 50) answers from the cache (position
\* answered) or calls populerAramalar(100) and waits (position waiting).
\* The fields of base stay in the call's locals.
BenzerStart(c, kelime, sample, base, waiting, answered) ==
    LET key == HarfKey(CharAt0(kelimeTemizle(kelime)), 1)
        cached == NodeCacheGet(cache, key, now)
        looked == NodeCacheAfterGet(cache, key, now)
    IN  IF cached # {}
        THEN /\ cache' = cache
             /\ local' = [local EXCEPT ![c] =
                             [response |-> CHOOSE v \in cached : TRUE] @@ base]
             /\ pc' = [pc EXCEPT ![c] = answered]
        ELSE /\ cache' = PopulerStore(looked, 100, sample, now)
             /\ local' = [local EXCEPT ![c] =
                             [populerKelimeler |-> PopulerValue(looked, 100, sample, now)]
                                @@ base]
             /\ pc' = [pc EXCEPT ![c] = waiting]

\* harfeGoreKelimeler(ilkHarf, 1, 50) inside benzerKelimeler(kelime, ...)
\* after its await: the page is built, stored and handed over.
BenzerPage(c, kelime, waiting, answered) ==
    /\ pc[c] = waiting
    /\ LET harf == CharAt0(kelimeTemizle(kelime))
           result == HarfResult(local[c].populerKelimeler, harf, 1, 50, now)
       IN  /\ cache' = NodeCacheSet(cache, HarfKey(harf, 1), result, HarfTTL, now)
           /\ local' = [local EXCEPT ![c] = [response |-> result] @@ local[c]]
           /\ pc' = [pc EXCEPT ![c] = answered]
    /\ UNCHANGED <<Config, order, now, started, op, legs, attempts, ret>>

\* benzerKelimeler(kelime, limit) up to its await.
BenzerCall(c, kelime, limit, sample) ==
    /\ CanStart(c)
    /\ started' = started + 1
    /\ op' = [op EXCEPT ![c] = [name |-> "benzerKelimeler", kelime |-> kelime,
                                limit |-> limit]]
    /\ BenzerStart(c, kelime, sample, [temizKelime |-> kelimeTemizle(kelime)],
                   "benzer-harf", "benzer")
    /\ UNCHANGED <<Config, order, now, legs, attempts, ret>>

BenzerHarf(c) ==
    /\ op[c].name = "benzerKelimeler"
    /\ BenzerPage(c, op[c].kelime, "benzer-harf", "benzer")

\* benzerKelimeler after its await: filter, slice, map, return.
BenzerReturn(c) ==
    /\ pc[c] = "benzer"
    /\ ret' = [ret EXCEPT ![c] =
                 Returned(BenzerResult(op[c].kelime, op[c].limit, local[c].response, now))]
    /\ pc' = [pc EXCEPT ![c] = "done"]
    /\ UNCHANGED <<Config, order, cache, now, started, op, legs, attempts, local>>

\* _onerilerGetir(kelime) once the letter's page has answered, with every
\* matching candidate in place of the first five.
OnerilerUncut(kelime, response, time) ==
    LET benzerler == BenzerResult(kelime, 50, response, time)
    IN  IF benzerler.success THEN benzerler.data.benzerKelimeler ELSE Arr(<<>>)

\* _onerilerGetir(kelime) once the letter's page has answered.
_onerilerGetir(kelime, response, time) ==
    LET benzerler == BenzerResult(kelime, 5, response, time)
    IN  IF benzerler.success THEN benzerler.data.benzerKelimeler ELSE Arr(<<>>)

\* metin.split(/\s+/).filter(k => k.trim()): the words of s after the
\* characters gathered in word.
RECURSIVE SplitWords(_, _)
SplitWords(s, word) ==
    LET ended == IF word = <<>> THEN <<>> ELSE <<word>>
    IN  IF s = <<>> THEN ended
        ELSE IF IsSpace(Head(s)) THEN ended \o SplitWords(Tail(s), <<>>)
        ELSE SplitWords(Tail(s), Append(word, Head(s)))

\* The catch of yazimDenetimi with the results so far thrown away.
YazimCatchAlone(sonuclar, kelime) ==
    <<[kelime |-> kelime, dogru |-> FALSE, oneriler |-> Arr(<<>>)]>>

\* The catch of yazimDenetimi: the word is recorded as not correct.
YazimCatch(sonuclar, kelime) ==
    Append(sonuclar, [kelime |-> kelime, dogru |-> FALSE, oneriler |-> Arr(<<>>)])

\* response.data && response.data.length > 0
DogruMu(data) == Truthy(data) /\ data.t = "array" /\ Len(data.v) > 0

\* (dogru / toplam * 100).toFixed(2), in hundredths.
DogrulukOrani(dogru, toplam) ==
    IF toplam = 0 THEN "NaN" ELSE (2 * 10000 * dogru + toplam) \div (2 * toplam)

\* The value yazimDenetimi returns.
YazimResult(metin, kelimeler, sonuclar, time) ==
    LET dogru == Cardinality({i \in 1..Len(sonuclar) : sonuclar[i].dogru})
    IN  [success |-> TRUE,
         data |-> [metin |-> metin, sonuclar |-> Arr(sonuclar),
                   istatistik |-> [toplamKelime |-> Len(kelimeler),
                                   dogruKelime |-> dogru,
                                   hataliKelime |-> Len(sonuclar) - dogru,
                                   dogrulukOrani |-> DogrulukOrani(dogru, Len(kelimeler))]],
         metadata |-> [timestamp |-> time]]

\* The loop of yazimDenetimi once the current word has its entry in sonuclar:
\* the request for the next word, or the return.
YazimNext(c, sonuclar) ==
    LET kelimeler == local[c].kelimeler
        i == local[c].i
    IN  IF i = Len(kelimeler)
        THEN /\ ret' = [ret EXCEPT ![c] =
                          Returned(YazimResult(op[c].metin, kelimeler, sonuclar, now))]
             /\ pc' = [pc EXCEPT ![c] = "done"]
             /\ local' = [local EXCEPT ![c] =
                             [kelimeler |-> kelimeler, i |-> i, sonuclar |-> sonuclar,
                              kelime |-> kelimeler[i]]]
             /\ UNCHANGED <<legs, attempts>>
        ELSE /\ local' = [local EXCEPT ![c] =
                             [kelimeler |-> kelimeler, i |-> i + 1, sonuclar |-> sonuclar,
                              kelime |-> kelimeler[i + 1]]]
             /\ legs' = [legs EXCEPT ![c] = [k \in {"yazim"} |-> Pending]]
             /\ attempts' = [attempts EXCEPT ![c] = [k \in {"yazim"} |-> i + 1]]
             /\ pc' = [pc EXCEPT ![c] = "yazim"]
             /\ UNCHANGED ret

\* yazimDenetimi(metin) up to its first await: the words, and the request for
\* the first; the i-th request of the call is the i-th the service sees.
YazimCall(c, metin) ==
    /\ CanStart(c)
    /\ started' = started + 1
    /\ op' = [op EXCEPT ![c] = [name |-> "yazimDenetimi", metin |-> metin]]
    /\ LET kelimeler == SplitWords(metin, <<>>)
       IN  IF kelimeler = <<>>
           THEN /\ ret' = [ret EXCEPT ![c] = Returned(YazimResult(metin, <<>>, <<>>, now))]
                /\ pc' = [pc EXCEPT ![c] = "done"]
                /\ UNCHANGED <<legs, attempts, local>>
           ELSE /\ local' = [local EXCEPT ![c] =
                                [kelimeler |-> kelimeler, i |-> 1, sonuclar |-> <<>>,
                                 kelime |-> kelimeler[1]]]
                /\ legs' = [legs EXCEPT ![c] = [k \in {"yazim"} |-> Pending]]
                /\ attempts' = [attempts EXCEPT ![c] = [k \in {"yazim"} |-> 1]]
                /\ pc' = [pc EXCEPT ![c] = "yazim"]
                /\ UNCHANGED ret
    /\ UNCHANGED <<Config, order, cache, now>>

\* yazimDenetimi when the request for the current word has settled: the catch,
\* the entry of a correct word, or the start of _onerilerGetir.
YazimChecked(c, sample) ==
    /\ pc[c] = "yazim"
    /\ legs[c]["yazim"].status # "pending"
    /\ LET kelime == local[c].kelime
           sonuclar == local[c].sonuclar
           response == legs[c]["yazim"]
       IN  IF response.status = "rejected"
           THEN YazimNext(c, YazimCatch(sonuclar, kelime)) /\ cache' = cache
           ELSE IF DogruMu(response.data)
           THEN /\ YazimNext(c, Append(sonuclar, [kelime |-> kelime, dogru |-> TRUE,
                                                  oneriler |-> Arr(<<>>)]))
                /\ cache' = cache
           ELSE /\ BenzerStart(c, kelime, sample,
                               [kelimeler |-> local[c].kelimeler, i |-> local[c].i,
                                sonuclar |-> sonuclar, kelime |-> kelime],
                               "yazim-harf", "yazim-benzer")
                /\ UNCHANGED <<legs, attempts, ret>>
    /\ UNCHANGED <<Config, order, now, started, op>>

YazimHarf(c) ==
    /\ op[c].name = "yazimDenetimi"
    /\ BenzerPage(c, local[c].kelime, "yazim-harf", "yazim-benzer")

\* yazimDenetimi when _onerilerGetir has answered: the entry of a word that
\* is not correct.
YazimOneri(c) ==
    /\ pc[c] = "yazim-benzer"
    /\ YazimNext(c, Append(local[c].sonuclar,
                           [kelime |-> local[c].kelime, dogru |-> FALSE,
                            oneriler |-> _onerilerGetir(local[c].kelime,
                                                        local[c].response, now)]))
    /\ UNCHANGED <<Config, order, cache, now, started, op>>

\* One instance, its cache in use, every endpoint up, asked for pages of
\* two words under a letter with words and a letter without, and for the
\* words similar to terms with several, one and no similar word.
InitSimilar ==
    InitWith(TRUE, DefaultRetryCount, [down |-> {}, transient |-> FALSE], MaxOps)

PoolLetters == {<<"h">>, <<"z">>}

BenzerTerms == {<<"h">>, <<"H", "a", "v", "a">>, <<"H", "a", "y">>, <<"z">>}

BenzerLimits == {1, 10}

StartPool ==
    \E c \in Calls, harf \in PoolLetters, sample \in RandomSamples :
        HarfCall(c, harf, 1, 2, sample)

StartBenzer ==
    \E c \in Calls, kelime \in BenzerTerms, limit \in BenzerLimits,
       sample \in RandomSamples :
        BenzerCall(c, kelime, limit, sample)

PageForBenzer == \E c \in Calls : BenzerHarf(c)

FinishBenzer == \E c \in Calls : BenzerReturn(c)

NextSimilar ==
    \/ StartPool
    \/ FinishHarf
    \/ StartBenzer
    \/ PageForBenzer
    \/ FinishBenzer

SpecSimilar == InitSimilar /\ [][NextSimilar]_vars

\* One instance, its cache in use, the spelling endpoint up, down, or down
\* for the first request it sees, asked to check texts with a known word,
\* unknown words, a word of punctuation and stray whitespace.
SpellingConditions ==
    {[down |-> {}, transient |-> FALSE],
     [down |-> {"yazim"}, transient |-> FALSE],
     [down |-> {"yazim"}, transient |-> TRUE]}

InitSpelling ==
    \E condition \in SpellingConditions :
        InitWith(TRUE, DefaultRetryCount, condition, MaxOps)

Metinler ==
    {<<>>,
     <<"e", "v", " ", "h">>,
     <<"!", " ", " ", "z">>,
     <<" ", "E", "v", Tab, "e", "v">>}

StartYazim == \E c \in Calls, metin \in Metinler : YazimCall(c, metin)

CheckedYazim == \E c \in Calls, sample \in RandomSamples : YazimChecked(c, sample)

PageForYazim == \E c \in Calls : YazimHarf(c)

OneriYazim == \E c \in Calls : YazimOneri(c)

NextSpelling ==
    \/ StartYazim
    \/ SettleCall
    \/ CheckedYazim
    \/ PageForYazim
    \/ OneriYazim

SpecSpelling == InitSpelling /\ [][NextSpelling]_vars

\* The calls of benzerKelimeler that have returned a list, the list of one,
\* and the page one call filtered.
Ranked ==
    {c \in Calls : op[c].name = "benzerKelimeler" /\ pc[c] = "done"
                     /\ ret[c].value.success}

Benzerler(c) == ret[c].value.data.benzerKelimeler.v

PageOf(c) == local[c].response.data.kelimeler.v

\* C23: no term benzerKelimeler returns has the normalized form of the input
\* term, whatever the pool and the limit.
C23_SimilarExcludesInput ==
    \A c \in Ranked :
        \A i \in 1..Len(Benzerler(c)) :
            kelimeTemizle(Benzerler(c)[i]) # kelimeTemizle(op[c].kelime)

\* A call has returned whose page held the input term itself, in another
\* spelling.
C23_Witness ==
    \E c \in Ranked :
        \E i \in 1..Len(PageOf(c)) :
            /\ kelimeTemizle(PageOf(c)[i].kelime) = kelimeTemizle(op[c].kelime)
            /\ PageOf(c)[i].kelime # op[c].kelime

\* The popular list as the cache holds it: the candidate pool.
Pool ==
    LET held == NodeCacheGet(cache, PopulerKey(100), now)
    IN  IF held = {} THEN <<>> ELSE (CHOOSE v \in held : TRUE).data.v

\* The rule of similarity between a normalized input and a pool term.
Similar(temiz, w) ==
    /\ toLowerCase(w)[1] = temiz[1]
    /\ kelimeTemizle(w) # temiz
    /\ \/ StartsWith(kelimeTemizle(w), SubSeq(temiz, 1, Min(3, Len(temiz))))
       \/ Includes(kelimeTemizle(w), SubSeq(temiz, 2, Min(4, Len(temiz))))

\* The terms of the pool similar to the input of call c, in pool order.
SimilarInPool(c) ==
    LET temiz == kelimeTemizle(op[c].kelime)
        rule(item) == Similar(temiz, item.kelime)
        kept == SelectSeq(Pool, rule)
    IN  [i \in 1..Len(kept) |-> kept[i].kelime]

\* C24: benzerKelimeler(term, limit) returns, in pool order, exactly the first
\* limit terms of the pool that share the first letter of the input, differ
\* from it, and start with its first three characters or contain its
\* characters 2 to 4; never more than limit terms.
C24_SimilarIsFirstMatches ==
    \A c \in Ranked :
        kelimeTemizle(op[c].kelime) # <<>> =>
            /\ Benzerler(c) = SubSeq(SimilarInPool(c), 1,
                                     Min(op[c].limit, Len(SimilarInPool(c))))
            /\ Len(Benzerler(c)) <= op[c].limit

\* The calls of yazimDenetimi that have returned, and the entries of one.
Checked == {c \in Calls : op[c].name = "yazimDenetimi" /\ pc[c] = "done"}

Sonuclar(c) == ret[c].value.data.sonuclar.v

\* What the service answers to the i-th request of a call, for the word w.
YazimAnswer(w, i) == Response(remote, "yazim", encodeURIComponent(w), i)

PoolIndex(w) == CHOOSE i \in 1..Len(Pool) : Pool[i].kelime = w

\* C26: in every entry of a yazimDenetimi result a correct word has no
\* suggestions, and a word that is not correct has at most five, in pool
\* order, none of them the word itself.
C26_SuggestionsBounded ==
    \A c \in Checked :
        \A i \in 1..Len(Sonuclar(c)) :
            LET entry == Sonuclar(c)[i]
                oneriler == entry.oneriler.v
            IN  IF entry.dogru THEN oneriler = <<>>
                ELSE /\ Len(oneriler) <= 5
                     /\ \A a \in 1..Len(oneriler) :
                            /\ oneriler[a] # entry.kelime
                            /\ kelimeTemizle(oneriler[a]) # kelimeTemizle(entry.kelime)
                            /\ \E p \in 1..Len(Pool) : Pool[p].kelime = oneriler[a]
                            /\ \A b \in 1..Len(oneriler) :
                                   a < b => PoolIndex(oneriler[a]) < PoolIndex(oneriler[b])

\* A check has returned with a correct word beside a word with suggestions,
\* and another with a word that got five suggestions out of more candidates.
C26_Witness ==
    /\ \E c \in Checked :
           \E i, j \in 1..Len(Sonuclar(c)) :
               Sonuclar(c)[i].dogru /\ Sonuclar(c)[j].oneriler.v # <<>>
    /\ \E c \in Checked :
           \E i \in 1..Len(Sonuclar(c)) :
               /\ Len(Sonuclar(c)[i].oneriler.v) = 5
               /\ Len(Pool) > 5

\* ------------------------------------------------- nothing to list or suggest

\* One instance with every endpoint up, asked for the words under z, of
\* which the pool has none, for the words similar to z and to Hava, which
\* has none but itself, and to check a text of such words; the caller awaits
\* each call before it makes the next.
Awaited == \A d \in Calls : pc[d] \in {"idle", "done"}

StartEmptyPage ==
    \E c \in Calls, sample \in RandomSamples :
        Awaited /\ HarfCall(c, <<"z">>, 1, 2, sample)

StartUnmatched ==
    \E c \in Calls, kelime \in {<<"z">>, <<"H", "a", "v", "a">>},
       sample \in RandomSamples :
        Awaited /\ BenzerCall(c, kelime, 10, sample)

StartUnknown ==
    \E c \in Calls : Awaited /\ YazimCall(c, <<"H", "a", "v", "a", " ", "z">>)

NextNoMatch ==
    \/ StartEmptyPage
    \/ FinishHarf
    \/ StartUnmatched
    \/ PageForBenzer
    \/ FinishBenzer
    \/ StartUnknown
    \/ SettleCall
    \/ CheckedYazim
    \/ PageForYazim
    \/ OneriYazim

SpecNoMatch == InitPages /\ [][NextNoMatch]_vars

\* No term of the pool starts with harf; no term of the pool is similar to
\* kelime.
NoneUnder(harf) ==
    \A p \in 1..Len(Pool) : ~StartsWith(toLowerCase(Pool[p].kelime), toLowerCase(harf))

NoneSimilar(kelime) ==
    /\ kelimeTemizle(kelime) # <<>>
    /\ \A p \in 1..Len(Pool) : ~Similar(kelimeTemizle(kelime), Pool[p].kelime)

\* C27: when no pool term is under the letter, or none is similar to the
\* term, harfeGoreKelimeler, benzerKelimeler and the suggestions of
\* yazimDenetimi report no error and give an empty list.
C27_EmptyPoolGivesEmptyList ==
    \A c \in Calls :
        pc[c] = "done" =>
            /\ (op[c].name = "harfeGoreKelimeler" /\ NoneUnder(op[c].harf)) =>
                   /\ ret[c].value.success
                   /\ ret[c].value.data.kelimeler = Arr(<<>>)
                   /\ ret[c].value.data.toplamKelime = 0
            /\ (op[c].name = "benzerKelimeler" /\ NoneSimilar(op[c].kelime)) =>
                   /\ ret[c].value.success
                   /\ ret[c].value.data.benzerKelimeler = Arr(<<>>)
                   /\ ret[c].value.data.sayi = 0
            /\ op[c].name = "yazimDenetimi" =>
                   /\ ret[c].value.success
                   /\ \A i \in 1..Len(Sonuclar(c)) :
                          NoneSimilar(Sonuclar(c)[i].kelime) =>
                              Sonuclar(c)[i].oneriler = Arr(<<>>)

\* Each of the three has returned with nothing under the letter or similar
\* to the term.
C27_Witness ==
    /\ \E c \in Paged : NoneUnder(op[c].harf)
    /\ \E c \in Ranked : NoneSimilar(op[c].kelime) /\ PageOf(c) # <<>>
    /\ \E c \in Checked : \E i \in 1..Len(Sonuclar(c)) : NoneSimilar(Sonuclar(c)[i].kelime)

\* ---------------------------------------------- choice of sub-dictionaries

\* The request of tumVerileriGetir that queries a sub-dictionary the README
\* names.
DictionaryLeg(name) ==
    CASE name = <<"g", "t", "s">> -> "temel"
      [] name = <<"p", "r", "o", "v", "e", "r", "b", "s">> -> "atasozleri"
      [] name = <<"e", "t", "y", "m", "o", "l", "o", "g", "y">> -> "etimoloji"

\* The requests a lookup with these options is to issue: those of the
\* dictionaries it names, all of them when it names none.
Requested(options) ==
    IF "dictionaries" \in options.has
    THEN {DictionaryLeg(options.dictionaries[i]) : i \in 1..Len(options.dictionaries)}
    ELSE LegKeys

\* C28: a lookup issues requests to the sub-dictionaries its options name
\* only, to all by default, and its record states which were requested.
C28_QueriesNamedDictionariesOnly ==
    \A c \in LookedUp :
        /\ DOMAIN legs[c] \cap LegKeys = Requested(op[c].options)
        /\ "dictionariesQueried" \in DOMAIN ret[c].value.metadata

\* --------------------------------------------------- grammatical category

\* _kullanimTuruBelirle(anlam) as a call of its own.
KullanimCall(c, anlam) ==
    /\ CanStart(c)
    /\ started' = started + 1
    /\ op' = [op EXCEPT ![c] = [name |-> "_kullanimTuruBelirle", anlam |-> anlam]]
    /\ ret' = [ret EXCEPT ![c] = Returned(_kullanimTuruBelirle(anlam))]
    /\ pc' = [pc EXCEPT ![c] = "done"]
    /\ UNCHANGED <<Config, order, cache, now, legs, attempts, local>>

\* The markers of the senses classified: names of categories, names that
\* contain one, a name that contains none, and a marker without a name.
MarkerNames == {"isim", "sifat", "gecissiz fiil", "edat", "unlem", "cekim eki", ""}

MarkerLists ==
    UNION {[1..n -> {[tam_adi |-> m] : m \in MarkerNames}] : n \in 0..MaxMarkers}

\* The markers of sense anlam, none when it has no list.
MarkersOf(anlam) == OrElse(anlam.ozelliklerListe, Arr(<<>>)).v

\* How often marker m occurs in the list ms.
Count(ms, m) == Cardinality({i \in 1..Len(ms) : ms[i] = m})

\* A sense is classified: one with a list of markers, or one without a list.
Classify ==
    \/ \E ms \in MarkerLists : KullanimCall(1, Sense("anlam", Null, Arr(ms)))
    \/ KullanimCall(1, Sense("anlam", Null, Null))

\* The same sense with its markers in another order is classified.
ClassifyReordered ==
    \E ms \in MarkerLists :
        /\ pc[1] = "done"
        /\ Len(ms) = Len(MarkersOf(op[1].anlam))
        /\ \A i \in 1..Len(ms) : Count(ms, ms[i]) = Count(MarkersOf(op[1].anlam), ms[i])
        /\ KullanimCall(2, Sense("anlam", Null, Arr(ms)))

NextCategory == Classify \/ ClassifyReordered

SpecCategory == InitText /\ [][NextCategory]_vars

\* The senses classified so far.
Classified == {c \in Calls : op[c].name = "_kullanimTuruBelirle" /\ pc[c] = "done"}

\* The ranking the category is chosen by.
Priority == <<"isim", "sifat", "zarf", "fiil", "edat", "baglac", "unlem">>

\* Some marker of call c has a name that contains cat.
Marked(c, cat) ==
    \E i \in 1..Len(MarkersOf(op[c].anlam)) :
        MarkerIncludes(MarkersOf(op[c].anlam)[i].tam_adi, cat)

\* C30: the category of a sense is the first of isim, sifat, zarf, fiil,
\* edat, baglac, unlem that the name of some marker contains, null when no
\* marker names one; the order of the markers does not matter.
C30_CategoryByPriority ==
    /\ \A c \in Classified :
           /\ (\A j \in 1..Len(Priority) : ~Marked(c, Priority[j])) => ret[c].value = Null
           /\ \A j \in 1..Len(Priority) :
                  (Marked(c, Priority[j]) /\ \A k \in 1..(j - 1) : ~Marked(c, Priority[k]))
                      => ret[c].value = Str(Priority[j])
    /\ \A c, d \in Classified :
           (\A m \in {[tam_adi |-> n] : n \in MarkerNames} :
               Count(MarkersOf(op[c].anlam), m) = Count(MarkersOf(op[d].anlam), m))
               => ret[c].value = ret[d].value

\* A sense whose first marker names a category of lower rank than its second
\* was classified, and again with the two swapped.
C30_Witness ==
    /\ Classified = {1, 2}
    /\ MarkersOf(op[1].anlam) # MarkersOf(op[2].anlam)
    /\ ret[1].value # Null
    /\ ~MarkerIncludes(MarkersOf(op[1].anlam)[1].tam_adi, ret[1].value.v)
    /\ \E j \in 1..Len(Priority) : MarkerIncludes(MarkersOf(op[1].anlam)[1].tam_adi, Priority[j])

\* ------------------------------------------------ values shared by the cache

\* rastgeleKelime() up to its await of populerAramalar(100).
RastgeleCall(c, sample) ==
    /\ CanStart(c)
    /\ started' = started + 1
    /\ op' = [op EXCEPT ![c] = [name |-> "rastgeleKelime"]]
    /\ local' = [local EXCEPT ![c] = [populer |-> PopulerValue(cache, 100, sample, now)]]
    /\ cache' = PopulerStore(cache, 100, sample, now)
    /\ pc' = [pc EXCEPT ![c] = "rastgele"]
    /\ UNCHANGED <<Config, order, now, legs, attempts, ret>>

\* rastgeleKelime after that await: Math.random picks rastgeleIndex, and
\* ara(rastgeleKelime) runs up to its first suspension; op keeps the
\* arguments of that call.
RastgelePick(c, rastgeleIndex) ==
    /\ pc[c] = "rastgele"
    /\ rastgeleIndex < Len(local[c].populer.data.v)
    /\ LET rastgeleKelime == local[c].populer.data.v[rastgeleIndex + 1].kelime
       IN  /\ op' = [op EXCEPT ![c] = [name |-> "rastgeleKelime", word |-> rastgeleKelime,
                                       options |-> NoOptions]]
           /\ AraBegin(c, rastgeleKelime, NoOptions, "detay")
    /\ UNCHANGED <<Config, order, now, started>>

\* rastgeleKelime after its await of ara: the value it returns.
RastgeleReturn(c) ==
    /\ pc[c] = "detay"
    /\ LET detay == ret[c].value
       IN  ret' = [ret EXCEPT ![c] =
                     Returned([success |-> TRUE,
                               data |-> [kelime |-> op[c].word,
                                         detay |-> IF detay.success THEN detay.data
                                                   ELSE Null],
                               metadata |-> [timestamp |-> now, tip |-> "rastgele"]])]
    /\ pc' = [pc EXCEPT ![c] = "done"]
    /\ UNCHANGED <<Config, order, cache, now, started, op, legs, attempts, local>>

\* What Math.random yields in rastgeleKelime, as the index it leads to.
RandomIndexes == {0, 23}

StartRastgele == \E c \in Calls, sample \in RandomSamples : RastgeleCall(c, sample)

PickRastgele == \E c \in Calls, i \in RandomIndexes : RastgelePick(c, i)

FinishRastgele == \E c \in Calls : RastgeleReturn(c)

\* One instance and the operations that hand on or read values the cache
\* holds: the popular list, pages of it, a random word and its lookup,
\* within the lifetime of the entries.
NextShared ==
    \/ StartPopuler
    \/ StartHarf
    \/ FinishHarf
    \/ StartRastgele
    \/ PickRastgele
    \/ SettleCall
    \/ Merge
    \/ FinishRastgele

SpecShared == InitSimilar /\ [][NextShared]_vars

\* Call c takes the step.
Stepping(c) == pc'[c] # pc[c]

\* The keys under which the operation of call c calls cache.set.
StoresUnder(c) ==
    CASE op'[c].name = "populerAramalar" -> {PopulerKey(op'[c].limit)}
      [] op'[c].name = "harfeGoreKelimeler" ->
           {PopulerKey(100), HarfKey(op'[c].harf, op'[c].sayfa)}
      [] op'[c].name = "rastgeleKelime" ->
           {PopulerKey(100)} \cup (IF "word" \in DOMAIN op'[c]
                                   THEN {AraKey(op'[c].word, op'[c].options)} ELSE {})
      [] OTHER -> {}

\* The popular list is stored after a miss only.
StoredOnMiss(k) == \E limit \in PopulerLimits : k = PopulerKey(limit)

\* C29: no step alters the value of a cache entry where it lies: an entry
\* stays as it is or goes, or the stepping call puts a new value under its
\* key with cache.set, which for the popular list happens once the entry has
\* expired only.
C29_CachedValuesNotMutated ==
    [][\A e \in cache :
          \/ e \in cache'
          \/ \A x \in cache' : x.k # e.k
          \/ \E c \in Calls :
                /\ Stepping(c)
                /\ e.k \in StoresUnder(c)
                /\ StoredOnMiss(e.k) => Expired(e, now)]_vars

\* A page and, after it, a random word have been returned that were read
\* from the popular list the cache holds, and the list is still held.
C29_Witness ==
    /\ Pool # <<>>
    /\ \E c \in Paged, d \in Calls :
           /\ c < d
           /\ PageTerms(c) # {}
           /\ PageTerms(c) \subseteq {Pool[p].kelime : p \in 1..Len(Pool)}
           /\ op[d].name = "rastgeleKelime" /\ pc[d] = "done"
           /\ \E p \in 1..Len(Pool) : Pool[p].kelime = ret[d].value.data.kelime

\* -------------------------------------------------- what the cache may hold

\* The calls of gununKelimesi that returned an error.
GununFailed ==
    {c \in Calls : op[c].name = "gununKelimesi" /\ pc[c] = "done"
                     /\ ~ret[c].value.success}

\* C31: every value the cache holds is a success result; a call that
\* returned an error left nothing under its key, and it had asked the service
\* itself, as the call after it does.
C31_OnlySuccessCached ==
    /\ \A e \in cache : e.v.success
    /\ \A c \in GununFailed :
           /\ DOMAIN legs[c] # {}
           /\ \A e \in cache : e.k # GununKey

\* Two calls of gununKelimesi have failed one after the other, each with a
\* request of its own.
C31_Witness ==
    \E c, d \in GununFailed : c < d /\ DOMAIN legs[c] # {} /\ DOMAIN legs[d] # {}

\* ------------------------------------------------------- incomplete records

\* The value is an aggregated record some leg of which had failed.
Incomplete(value) == value.success /\ ~value.data.metadata.tamVeri

\* C32: a lookup whose record is incomplete stores it under its key with the
\* time to live of its options, as a complete one is stored; a lookup for the
\* same word and options that starts before that time has passed returns the
\* incomplete record and issues no request.
C32_IncompleteRecordCachedAlike ==
    [][cacheEnabled =>
        \A c \in Calls :
            /\ (AraCompletes(c) /\ Incomplete(ret'[c].value)) =>
                  [k |-> AraKey(op[c].word, op[c].options), v |-> ret'[c].value,
                   t |-> now + CacheTTLOf(op[c].options)] \in cache'
            /\ AraStarts(c) =>
                  \A e \in AraEntries(op'[c].word, op'[c].options) :
                      (Incomplete(e.v) /\ now < e.t) =>
                          ServedFromCache(c, e.v)]_vars

\* A lookup lost legs to the service, and a later lookup for the same word and
\* options has returned its incomplete record from the cache.
C32_Witness ==
    \E c \in CacheHits, d \in LookedUp :
        /\ d < c
        /\ FailedLegs(d) # {}
        /\ ret[c] = ret[d]
        /\ Incomplete(ret[c].value)

\* ------------------------------------------- invalidation during a lookup

\* Call d is a cacheTemizle whose argument covers the key of lookup c.
Covers(d, c) ==
    /\ op[d].name = "cacheTemizle"
    /\ op[c].name = "ara"
    /\ \/ op[d].pattern = <<>>
       \/ Includes(AraKey(op[c].word, op[c].options), op[d].pattern)

\* C33: a cacheTemizle that runs while a lookup waits for its fan-out leaves
\* the lookup as it was, and the lookup, when it returns, stores its result
\* under its key although the invalidation that covered the key came first.
C33_InvalidationDoesNotCancel ==
    [][\A c, d \in Calls :
          /\ (InFlight(c) /\ pc[d] = "idle" /\ op'[d].name = "cacheTemizle") =>
                /\ pc'[c] = pc[c]
                /\ legs'[c] = legs[c]
                /\ attempts'[c] = attempts[c]
                /\ ~ret'[c].returned
          /\ (cacheEnabled /\ c < d /\ Covers(d, c) /\ AraCompletes(c)) =>
                [k |-> AraKey(op[c].word, op[c].options), v |-> ret'[c].value,
                 t |-> now + CacheTTLOf(op[c].options)] \in cache']_vars

\* A cacheTemizle covering the key of a lookup was the last call to start, it
\* started after the lookup did, and the cache holds the result of the lookup.
C33_Witness ==
    \E c \in LookedUp, d \in Calls :
        /\ cacheEnabled
        /\ c < d
        /\ started = d
        /\ Covers(d, c)
        /\ \E e \in cache : e.k = AraKey(op[c].word, op[c].options) /\ e.v = ret[c].value

\* ------------------------------------------------------------ pronunciation

\* The lookups that asked for the pronunciation and have returned.
WithPronunciation == {c \in LookedUp : TelaffuzOf(op[c].options)}

\* C34: the pronunciation request exists only for a lookup that asked for it
\* and only once none of its eight legs is pending; a lookup that asked for it
\* has made the request, and when the request failed the lookup is a success
\* whose telaffuz is null and whose tamVeri and veriKaynaklari are those of the
\* eight legs.
C34_PronunciationAfterLegs ==
    /\ \A c \in Calls :
           "ses" \in DOMAIN legs[c] =>
               /\ TelaffuzOf(op[c].options)
               /\ \A k \in LegKeys : legs[c][k].status # "pending"
    /\ \A c \in WithPronunciation :
           /\ "ses" \in DOMAIN legs[c]
           /\ legs[c]["ses"].status = "rejected" =>
                 /\ ret[c].value.success
                 /\ ret[c].value.data.telaffuz = Null
                 /\ "sesDosyasi" \notin DOMAIN ret[c].value.data
                 /\ ret[c].value.data.metadata.tamVeri = (FailedLegs(c) = {})
                 /\ ret[c].value.data.metadata.veriKaynaklari
                        = Len(Legs) - Cardinality(FailedLegs(c))

\* A lookup with options.telaffuz has returned a complete record although its
\* pronunciation request was rejected.
C34_Witness ==
    \E c \in WithPronunciation :
        /\ legs[c]["ses"].status = "rejected"
        /\ FailedLegs(c) = {}
        /\ ret[c].value.data.metadata.tamVeri

\* ------------------------------------------------------ the count of sources

\* metadata.veriKaynaklari of the record call c returned.
VeriKaynaklari(c) == ret[c].value.data.metadata.veriKaynaklari

ProverbConditions == [down : SUBSET {"atasozu", "deyim"}, transient : BOOLEAN]

InitProverbs ==
    \E condition \in ProverbConditions :
        InitWith(TRUE, DefaultRetryCount, condition, MaxOps)

\* The keys searched: one with a proverb and an idiom, one with no proverb and
\* an empty answer from the idiom source.
ProverbTerms == {<<"e", "v">>, <<"s", "u">>}

StartProverbs == \E c \in Calls, anahtar \in ProverbTerms : AtasozuCall(c, anahtar)

NextProverbs == StartProverbs \/ SettleAny \/ FinishAtasozu

SpecProverbs == InitProverbs /\ [][NextProverbs]_vars

\* The calls of atasozuAra that made their two requests and have returned.
ProverbsSearched ==
    {c \in Calls : op[c].name = "atasozuAra" /\ pc[c] = "done" /\ DOMAIN legs[c] # {}}

\* What a source that answered contributes for anahtar: its list, the empty
\* list for an empty answer.
Answered(ep, anahtar) == OrElse(RemoteBody(ep, encodeURIComponent(anahtar)), Arr(<<>>))

\* C36: atasozuAra makes its two requests together and returns only when both
\* have settled; it returns a success whatever failed; each list is the empty
\* list when its own request failed and the answer of its own source when it
\* did not, whatever became of the other; toplam is the sum of the lengths of
\* the two lists.
C36_ProverbsAndIdiomsIndependent ==
    /\ \A c \in Calls :
           pc[c] = "atasozu" =>
               /\ DOMAIN legs[c] = {"atasozu", "deyim"}
               /\ ~ret[c].returned
    /\ \A c \in ProverbsSearched :
           LET data == ret[c].value.data
               lists == [atasozu |-> data.atasozleri, deyim |-> data.deyimler]
           IN  /\ \A k \in {"atasozu", "deyim"} : legs[c][k].status # "pending"
               /\ ret[c].value.success
               /\ \A k \in {"atasozu", "deyim"} :
                      lists[k] = IF legs[c][k].status = "rejected" THEN Arr(<<>>)
                                 ELSE Answered(k, op[c].anahtar)
               /\ data.toplam = Len(data.atasozleri.v) + Len(data.deyimler.v)

\* A search lost its proverb request and has returned the idioms alone, with
\* their number as the total.
C36_Witness ==
    \E c \in ProverbsSearched :
        /\ legs[c]["atasozu"].status = "rejected"
        /\ legs[c]["deyim"].status = "fulfilled"
        /\ ret[c].value.data.atasozleri = Arr(<<>>)
        /\ ret[c].value.data.deyimler # Arr(<<>>)
        /\ ret[c].value.data.toplam = Len(ret[c].value.data.deyimler.v)


====
